---- MODULE Spec2Model ----
(***************************************************************************)
(* A model of the Draconity backend of dragonfly:                          *)
(*   engines/backend_draconity/client.py   DraconityClient                 *)
(*   engines/backend_draconity/stream.py   TCPStream                       *)
(*   engines/backend_draconity/windows_pipe.py  PipeStream                 *)
(*   engines/backend_draconity/engine.py   DraconityEngine, _FunctionLoop, *)
(*                                         GrammarWrapper                  *)
(*                                                                         *)
(* Spec      the life cycle of one DraconityClient: one calling thread     *)
(*           that issues connect(), close() and send(), and the receive    *)
(*           threads that connect() starts.  Every statement that reads or *)
(*           writes a field shared between the threads is its own step.    *)
(* SpecRecv  the receive loop of one connection over a TCPStream, byte by  *)
(*           byte: the socket hands out the bytes of the wire in chunks    *)
(*           of any size.                                                  *)
(* SpecFrames  the same loop when the backend writes frames of any body.   *)
(* SpecStream  one TCPStream or one PipeStream alone: the calls of send,   *)
(*           recv and close from two threads, the other end writing,       *)
(*           closing and resetting.                                        *)
(* SpecEngine  one DraconityEngine on one connection: the main thread,     *)
(*           which runs the application's set-up, then pumps the function  *)
(*           loop and runs every handler and callback, and the receive     *)
(*           thread, which only enqueues.                                  *)
(***************************************************************************)
EXTENDS Integers, Sequences, FiniteSets, TLC

\* ------------------------------------------------------------------ bounds
\* How many times connect() may install a stream (each one a fresh stream).
MaxConn == 2
\* How many times send() may be called.
MaxSends == 2

\* Python's None, for the fields that hold a stream or a thread (numbered from 1).
None == 0

StreamIds == 1..MaxConn

VARIABLES
    _stream,               \* client.py:54   the stream in use, or None
    _receiver,             \* client.py:55   the receive thread, or None
    _deliberately_closed,  \* client.py:67   "None", "False" or "True"
    _tid_counter,          \* client.py:64   the value next() returns next
    streamState,           \* per stream: "unused", "open", "dropped" (by the peer), "closed" (here)
    written,               \* the frames written to the streams, in order: <<stream, tid>>
    rpc,                   \* per receive thread: where it is in _recv_messages
    cause,                 \* per receive thread: the exception that ended its loop
    cbLog,                 \* per receive thread: the error and disconnect callbacks it made
    printed,               \* the callback whose exception was printed last, or "none"
    connCount,             \* streams installed by connect() so far
    closeCalls,            \* per connection: has close() been called on it?
    sendCalls,             \* calls of send() so far
    mainPc,                \* the calling thread: "idle", or where it is in an operation
    lastOp,                \* the operation the calling thread began last
    result,                \* how that operation ended: "ok" or the exception raised
    curTid,                \* send(): the tid _prep_message assigned
    sndPc,                 \* per sending thread: "idle" or "write" (in send(), tid assigned)
    sndTid                 \* per sending thread: the tid _prep_message assigned to it

\* ------------------------------------------------------------ byte level
VARIABLES
    wire,                  \* the bytes the backend wrote, in order
    frames,                \* the frames those bytes encode
    wirePos,               \* how many bytes the socket has handed out
    peerGone,              \* the backend closed its end
    tcpPc,                 \* the receive loop: "header", "body", "deliver", "failed"
    want,                  \* TCPStream.recv: the size asked for
    data,                  \* TCPStream.recv: the bytes collected so far
    header,                \* the unpacked header (tid, size)
    body,                  \* the bytes _receive_body got
    delivered,             \* the (tid, document) pairs passed to on_message
    tcpError               \* the exception that ended the loop, or "none"

\* --------------------------------------------------------------- engine
VARIABLES
    _grammar_wrappers,     \* engine.py:149  the names of the loaded grammars, in load order
    dirty,                 \* engine.py:415  per grammar: GrammarWrapper.dirty
    exclusive,             \* engine.py:413  per grammar: GrammarWrapper.exclusive
    state,                 \* engine.py:411  per grammar: GrammarWrapper.state, the g.set message
    active,                \* the rules that are active (and exported)
    lists,                 \* per grammar: the items of its list
    touched,               \* per grammar: loads, mutations and failure notices since
                           \* the flush last visited its wrapper
    calls,                 \* per grammar: calls of activate_rule, deactivate_rule,
                           \* update_list and set_exclusiveness since then
    _language,             \* engine.py:104
    _queue,                \* engine.py:38   the functions queued on the loop, oldest first
    queued,                \* functions queued so far
    executed,              \* the number of the function the pump took last
    sent,                  \* the messages the backend got from client.send, in order
    conn,                  \* the client's connection: "up" or "down"
    pumpPc,                \* the main thread: where it is
    cur,                   \* the function the pump took last
    visited,               \* update_all_grammars: the wrappers the running loop has visited
    curG,                  \* the grammar or rule whose callback is running
    recvPc,                \* the receive thread: "recv", "closing" or "done"
    backend,               \* the traffic of this run, one of Backends
    inbound,               \* documents the receive thread has passed on
    apiCalls,              \* calls of the engine's grammar interface so far
    events                 \* what the function the pump took last has called and logged

\* ------------------------------------------------------- one stream alone
VARIABLES
    impl,                  \* the class of the stream: "tcp" (TCPStream) or "pipe" (PipeStream)
    _socket,               \* stream.py:94        the socket: "open", "shut" or "closed"
    _handle,               \* windows_pipe.py:24  the handle: "open" or "closed"
    peer,                  \* the other end: "up", "gone" (closed in order) or "reset"
    avail,                 \* bytes that have arrived and were not read yet
    arrived,               \* bytes the other end has written so far
    strPc,                 \* the thread in recv(): "idle" or "recv"
    call,                  \* the call made last: "none", "send" or "recv"
    asked,                 \* TCPStream.recv: the size asked for
    gotBytes,              \* TCPStream.recv: the bytes collected so far
    outcome,               \* how the last send or recv ended: "none", "returned" or the exception
    original_error,        \* stream.py:35  the original_error of that exception
    ioCalls,               \* calls of send and recv so far
    closePc,               \* the thread in close(): "idle" or "close"
    closeCount,            \* calls of close() so far
    closeRaised,           \* the exception the last close() let out, or "none"
    _send_lock,            \* windows_pipe.py:22  the thread that holds it, or "unlocked"
    _recv_lock,            \* windows_pipe.py:23  the thread that holds it, or "unlocked"
    pipePc,                \* per thread: "idle", "write" (inside send) or "read" (inside recv)
    pipeAsked,             \* per thread: the size its recv was asked for
    pipeOut                \* per thread: its last call and how it ended

grammarVars == <<_grammar_wrappers, dirty, exclusive, state, active, lists, touched, calls>>
loopVars == <<_queue, queued, executed>>
pumpVars == <<pumpPc, cur, visited, curG, events>>
engVars == <<grammarVars, loopVars, pumpVars, _language, sent, conn, recvPc, inbound,
             apiCalls, backend>>

fieldVars == <<_stream, _receiver, _deliberately_closed>>
threadVars == <<rpc, cause, cbLog, printed>>
callerVars == <<mainPc, lastOp, result>>
senderVars == <<sndPc, sndTid>>
sendVars == <<_tid_counter, written, sendCalls, curTid, senderVars>>
clientVars == <<fieldVars, threadVars, callerVars, sendVars, streamState, connCount,
                closeCalls>>
tcpVars == <<wire, frames, wirePos, peerGone, tcpPc, want, data, header, body,
             delivered, tcpError>>
lockVars == <<_send_lock, _recv_lock, pipePc, pipeAsked, pipeOut>>
strVars == <<impl, _socket, _handle, peer, avail, arrived, strPc, call, asked, gotBytes,
             outcome, original_error, ioCalls, closePc, closeCount, closeRaised, lockVars>>
vars == <<clientVars, tcpVars, engVars, strVars>>

\* ------------------------------------------------------- DraconityClient
\* callable(self._on_error), callable(self._on_disconnect) (client.py:155 and
\* 164): the engine registers all three callbacks (engine.py:131).
_on_error == TRUE

_on_disconnect == TRUE

\* itertools.count(1), client.py:64: the first value next() returns.
\* (itertools.count() with no argument starts one below.)
tid_counter_start_zero == 1 - 1

tid_counter_start == 1

\* The threads that call send() at the same time: the pump thread and one
\* other.
Senders == {"pump", "other"}

\* __init__ (client.py:30-67).
ClientInit ==
    /\ sndPc = [th \in Senders |-> "idle"]
    /\ sndTid = [th \in Senders |-> 0]
    /\ _stream = None
    /\ _receiver = None
    /\ _deliberately_closed = "None"
    /\ _tid_counter = tid_counter_start
    /\ streamState = [s \in StreamIds |-> "unused"]
    /\ written = <<>>
    /\ rpc = [t \in StreamIds |-> "unstarted"]
    /\ cause = [t \in StreamIds |-> "none"]
    /\ cbLog = [t \in StreamIds |-> <<>>]
    /\ printed = "none"
    /\ connCount = 0
    /\ closeCalls = [c \in StreamIds |-> FALSE]
    /\ sendCalls = 0
    /\ mainPc = "idle"
    /\ lastOp = "none"
    /\ result = "none"
    /\ curTid = 0

\* Thread.isAlive(): started and not yet finished.
isAlive(t) == rpc[t] \notin {"unstarted", "done", "retired"}

\* (A check that never sees the stream.)
connected_stream_never == FALSE

\* The property `connected` (client.py:201-203) is
\*     self._stream and self._receiver and self._receiver.isAlive()
\* evaluated left to right: first the stream field, then the thread.
connected_stream == _stream # None

\* (A check that never sees the thread.)
connected_receiver_never == FALSE

connected_receiver == _receiver # None /\ isAlive(_receiver)

\* The calling thread finishes an operation.
Return(op_result) ==
    /\ mainPc' = "idle"
    /\ result' = op_result

\* The flag as connect() leaves it, client.py:86.
connect_flag == "False"

\* (A connect() that creates the thread and never starts it.)
ConnectInstall_not_started ==
    /\ connCount < MaxConn
    /\ connCount' = connCount + 1
    /\ _deliberately_closed' = connect_flag
    /\ _stream' = connCount + 1
    /\ _receiver' = connCount + 1
    /\ streamState' = [streamState EXCEPT ![connCount + 1] = "open"]
    /\ rpc' = [t \in StreamIds |-> IF rpc[t] = "done" THEN "retired" ELSE rpc[t]]
    /\ cause' = [t \in StreamIds |-> "none"]
    /\ cbLog' = [t \in StreamIds |-> IF rpc[t] = "done" THEN <<>> ELSE cbLog[t]]
    /\ printed' = "none"
    /\ closeCalls' = [t \in StreamIds |-> FALSE]
    /\ Return("ok")

\* connect(), after `connected` came out false (client.py:86-90): the flag is
\* reset, the stream installed, the receive thread created and started. What
\* was recorded of the connections before it is dropped here, but for the
\* callbacks of a thread that has yet to finish.
ConnectInstall ==
    /\ connCount < MaxConn
    /\ connCount' = connCount + 1
    /\ _deliberately_closed' = connect_flag
    /\ _stream' = connCount + 1
    /\ _receiver' = connCount + 1
    /\ streamState' = [streamState EXCEPT ![connCount + 1] = "open"]
    /\ rpc' = [t \in StreamIds |-> IF t = connCount + 1 THEN "header"
                                   ELSE IF rpc[t] = "done" THEN "retired" ELSE rpc[t]]
    /\ cause' = [t \in StreamIds |-> "none"]
    /\ cbLog' = [t \in StreamIds |-> IF rpc[t] = "done" THEN <<>> ELSE cbLog[t]]
    /\ printed' = "none"
    /\ closeCalls' = [t \in StreamIds |-> FALSE]
    /\ Return("ok")

\* connect(stream), client.py:83: `connected` reads the stream field.
Connect ==
    /\ mainPc = "idle"
    /\ lastOp' = "connect"
    /\ IF connected_stream
       THEN /\ mainPc' = "connect_alive"
            /\ UNCHANGED <<fieldVars, threadVars, streamState, connCount, closeCalls,
                           result>>
       ELSE ConnectInstall
    /\ UNCHANGED sendVars

\* connect(stream), client.py:83-90: `connected` reads the thread; if it is
\* alive connect raises RuntimeError, else it installs the stream.
ConnectAlive ==
    /\ mainPc = "connect_alive"
    /\ IF connected_receiver
       THEN /\ Return("RuntimeError")
            /\ UNCHANGED <<fieldVars, threadVars, streamState, connCount, closeCalls>>
       ELSE ConnectInstall
    /\ UNCHANGED <<sendVars, lastOp>>

\* stream.close() (stream.py:56-62; TCPStream.close, stream.py:97-109).
StreamClosed(s) == [streamState EXCEPT ![s] = "closed"]

\* close(), client.py:196: the flag is set.
Close ==
    /\ mainPc = "idle"
    /\ lastOp' = "close"
    /\ _deliberately_closed' = "True"
    /\ closeCalls' = IF connCount = 0 THEN closeCalls
                     ELSE [closeCalls EXCEPT ![connCount] = TRUE]
    /\ mainPc' = "close_stream"
    /\ UNCHANGED <<_stream, _receiver, threadVars, sendVars, streamState, connCount,
                   result>>

\* close() -> _safely_close_stream, client.py:184-187: self._stream.close();
\* with no stream the AttributeError is swallowed.
CloseStream ==
    /\ mainPc = "close_stream"
    /\ streamState' = IF _stream = None THEN streamState ELSE StreamClosed(_stream)
    /\ mainPc' = "close_clear"
    /\ UNCHANGED <<fieldVars, threadVars, sendVars, connCount, closeCalls, lastOp,
                   result>>

\* close() -> _safely_close_stream, client.py:188: self._stream = None.
CloseClear ==
    /\ mainPc = "close_clear"
    /\ _stream' = None
    /\ mainPc' = "close_join"
    /\ UNCHANGED <<_receiver, _deliberately_closed, threadVars, sendVars, streamState,
                   connCount, closeCalls, lastOp, result>>

\* (A close() that does not wait.)
join_returns_at_once(t) == TRUE

\* Thread.join() returns once the thread has finished.
join_returns(t) == ~isAlive(t)

\* close(), client.py:198: self._receiver.join(). With no receiver the
\* attribute lookup on None raises AttributeError out of close().
CloseJoin ==
    /\ mainPc = "close_join"
    /\ IF _receiver = None
       THEN Return("AttributeError")
       ELSE join_returns(_receiver) /\ Return("ok")
    /\ UNCHANGED <<fieldVars, threadVars, sendVars, streamState, connCount, closeCalls,
                   lastOp>>

\* send() -> _prep_message, client.py:213 and 233-237: the message is encoded
\* and given the next tid of the counter.
Send ==
    /\ mainPc = "idle"
    /\ sendCalls < MaxSends
    /\ sendCalls' = sendCalls + 1
    /\ lastOp' = "send"
    /\ curTid' = _tid_counter
    /\ _tid_counter' = _tid_counter + 1
    /\ mainPc' = "send_write"
    /\ UNCHANGED <<fieldVars, threadVars, streamState, written, connCount, closeCalls,
                   result, senderVars>>

\* stream.send(data) (stream.py:64-72; TCPStream.send, stream.py:111-116):
\* the bytes are written, or StreamError is raised. A stream closed here always
\* fails; one the peer dropped may still take the bytes.
stream_send(s) ==
    CASE streamState[s] = "open" -> {"ok"}
      [] streamState[s] = "dropped" -> {"ok", "StreamError"}
      [] OTHER -> {"StreamError"}

\* (A send() that puts the tid back when the write fails.)
SendWrite_tid_given_back ==
    /\ mainPc = "send_write"
    /\ IF _stream = None
       THEN /\ mainPc' = "send_except"
            /\ UNCHANGED <<result, written, _tid_counter>>
       ELSE \E o \in stream_send(_stream) :
                /\ written' = IF o = "ok" THEN Append(written, <<_stream, curTid>>)
                              ELSE written
                /\ _tid_counter' = IF o = "ok" THEN _tid_counter ELSE curTid
                /\ Return(o)
    /\ UNCHANGED <<fieldVars, threadVars, streamState, connCount, closeCalls, lastOp,
                   sendCalls, curTid, senderVars>>

\* send(), client.py:214-217 and 222: self._stream.send(prepped_message), and
\* the tid is returned. With no stream the attribute lookup raises
\* AttributeError, handled in SendExcept.
SendWrite ==
    /\ mainPc = "send_write"
    /\ IF _stream = None
       THEN /\ mainPc' = "send_except"
            /\ UNCHANGED <<result, written>>
       ELSE \E o \in stream_send(_stream) :
                /\ written' = IF o = "ok" THEN Append(written, <<_stream, curTid>>)
                              ELSE written
                /\ Return(o)
    /\ UNCHANGED <<fieldVars, threadVars, streamState, connCount, closeCalls, lastOp,
                   _tid_counter, sendCalls, curTid, senderVars>>

\* (A handler that raises the AttributeError again.)
send_except_reraise == "AttributeError"

\* send(), client.py:217-221: the handler of the AttributeError.
send_except == IF _stream = None THEN "StreamError" ELSE "AttributeError"

SendExcept ==
    /\ mainPc = "send_except"
    /\ Return(send_except)
    /\ UNCHANGED <<fieldVars, threadVars, sendVars, streamState, connCount, closeCalls,
                   lastOp>>

\* send() called from thread th -> _prep_message, client.py:213 and 233-237:
\* next(self._tid_counter) is one step of the interpreter; nothing is held
\* from here to the write.
SenderPrep(th) ==
    /\ sndPc[th] = "idle"
    /\ sendCalls < MaxSends
    /\ sendCalls' = sendCalls + 1
    /\ sndTid' = [sndTid EXCEPT ![th] = _tid_counter]
    /\ _tid_counter' = _tid_counter + 1
    /\ sndPc' = [sndPc EXCEPT ![th] = "write"]
    /\ UNCHANGED <<fieldVars, threadVars, callerVars, streamState, written, connCount,
                   closeCalls, curTid>>

\* send() in thread th, client.py:214-222: the write of its frame and the
\* return, or the exception (StreamError either way when there is no stream).
SenderWrite(th) ==
    /\ sndPc[th] = "write"
    /\ sndPc' = [sndPc EXCEPT ![th] = "idle"]
    /\ IF _stream = None
       THEN UNCHANGED written
       ELSE \E o \in stream_send(_stream) :
                written' = IF o = "ok" THEN Append(written, <<_stream, sndTid[th]>>)
                           ELSE written
    /\ UNCHANGED <<fieldVars, threadVars, callerVars, streamState, connCount, closeCalls,
                   _tid_counter, sendCalls, curTid, sndTid>>

\* ------------------------------------------------------ the receive thread
\* self._stream.recv(size) followed by the unpacking or decoding of what it
\* returned (client.py:134-135 and 145-146; stream.py:74-82): "ok", or the
\* exception raised. A stream closed here or dropped by the peer raises
\* StreamError; an open one blocks until the bytes arrive (the step is then
\* taken later), and what arrives may fail to unpack or decode.
receive(s) ==
    CASE streamState[s] = "closed" -> {"closed"}
      [] streamState[s] = "dropped" -> {"peer"}
      [] OTHER -> {"ok", "decode"}

\* An exception leaves the loop of _recv_messages (client.py:107).
Raise(t, c) ==
    /\ rpc' = [rpc EXCEPT ![t] = "except"]
    /\ cause' = [cause EXCEPT ![t] = c]

\* What a receive thread leaves alone in a step of its loop.
LoopFrame ==
    UNCHANGED <<fieldVars, callerVars, sendVars, streamState, cbLog, connCount,
                closeCalls>>

\* (Callbacks called with no try around them.)
callback_escapes_always(raises) == raises

\* _handle_error, _handle_disconnect and _handle_message, client.py:154-176:
\* each calls its callback inside try/except Exception, so an exception the
\* callback raises does not leave the method.
callback_escapes(raises) == FALSE

\* _communicate_exception, client.py:148-152 and 159, 168, 176: the exception
\* of the callback is printed.
_communicate_exception(raises, callback) == IF raises THEN callback ELSE printed

\* _recv_messages -> _pump_one_message -> _receive_header, client.py:134-136.
\* With no stream the attribute lookup on None raises AttributeError.
RecvHeader(t) ==
    /\ rpc[t] = "header"
    /\ IF _stream = None
       THEN Raise(t, "noref")
       ELSE \E o \in receive(_stream) :
                IF o = "ok"
                THEN rpc' = [rpc EXCEPT ![t] = "body"] /\ UNCHANGED cause
                ELSE Raise(t, o)
    /\ UNCHANGED printed
    /\ LoopFrame

\* _recv_messages -> _pump_one_message -> _receive_body, client.py:145-146.
RecvBody(t) ==
    /\ rpc[t] = "body"
    /\ IF _stream = None
       THEN Raise(t, "noref")
       ELSE \E o \in receive(_stream) :
                IF o = "ok"
                THEN rpc' = [rpc EXCEPT ![t] = "deliver"] /\ UNCHANGED cause
                ELSE Raise(t, o)
    /\ UNCHANGED printed
    /\ LoopFrame

\* _handle_message, client.py:172-176: the callback runs on this thread and
\* returns or raises; an exception it raises is printed and dropped. (One that
\* left _handle_message would end the loop, client.py:105-107.)
Deliver(t) ==
    /\ rpc[t] = "deliver"
    /\ \E raises \in BOOLEAN :
          IF callback_escapes(raises)
          THEN Raise(t, "callback") /\ UNCHANGED printed
          ELSE /\ rpc' = [rpc EXCEPT ![t] = "header"]
               /\ printed' = _communicate_exception(raises, "message")
               /\ UNCHANGED cause
    /\ LoopFrame

\* (A handler that ignores the flag, either way.)
report_error_always == TRUE

report_error_never == FALSE

\* _recv_messages, client.py:108: `if not self._deliberately_closed`.
report_error == _deliberately_closed # "True"

\* _handle_error, client.py:154-161.
_handle_error(log, error) ==
    IF _on_error THEN Append(log, <<"error", error>>) ELSE log

\* _recv_messages, client.py:107-109: the handler of the exception.
Except(t) ==
    /\ rpc[t] = "except"
    /\ cbLog' = [cbLog EXCEPT ![t] = IF report_error THEN _handle_error(@, cause[t])
                                     ELSE @]
    /\ \E raises \in IF report_error /\ _on_error THEN BOOLEAN ELSE {FALSE} :
          IF callback_escapes(raises)
          THEN rpc' = [rpc EXCEPT ![t] = "done"] /\ UNCHANGED printed
          ELSE /\ rpc' = [rpc EXCEPT ![t] = "close_stream"]
               /\ printed' = _communicate_exception(raises, "error")
    /\ UNCHANGED <<fieldVars, callerVars, sendVars, streamState, cause, connCount,
                   closeCalls>>

\* _recv_messages -> _safely_close_stream, client.py:111 and 184-187.
RecvCloseStream(t) ==
    /\ rpc[t] = "close_stream"
    /\ streamState' = IF _stream = None THEN streamState ELSE StreamClosed(_stream)
    /\ rpc' = [rpc EXCEPT ![t] = "close_clear"]
    /\ UNCHANGED <<fieldVars, callerVars, sendVars, cause, cbLog, printed, connCount,
                   closeCalls>>

\* _recv_messages -> _safely_close_stream, client.py:188: self._stream = None.
RecvCloseClear(t) ==
    /\ rpc[t] = "close_clear"
    /\ _stream' = None
    /\ rpc' = [rpc EXCEPT ![t] = "disconnect"]
    /\ UNCHANGED <<_receiver, _deliberately_closed, callerVars, sendVars, streamState,
                   cause, cbLog, printed, connCount, closeCalls>>

\* (A loop that ends without the callback.)
_handle_disconnect_skipped(log) == log

\* _handle_disconnect, client.py:163-170.
_handle_disconnect(log) ==
    IF _on_disconnect THEN Append(log, <<"disconnect", "">>) ELSE log

\* _recv_messages, client.py:112; the thread then ends.
Disconnect(t) ==
    /\ rpc[t] = "disconnect"
    /\ cbLog' = [cbLog EXCEPT ![t] = _handle_disconnect(@)]
    /\ rpc' = [rpc EXCEPT ![t] = "done"]
    /\ \E raises \in IF _on_disconnect THEN BOOLEAN ELSE {FALSE} :
          printed' = IF callback_escapes(raises) THEN printed
                     ELSE _communicate_exception(raises, "disconnect")
    /\ UNCHANGED <<fieldVars, callerVars, sendVars, streamState, cause, connCount,
                   closeCalls>>

\* The backend goes away, or the transport fails.
PeerDrop(s) ==
    /\ streamState[s] = "open"
    /\ streamState' = [streamState EXCEPT ![s] = "dropped"]
    /\ UNCHANGED <<fieldVars, threadVars, callerVars, sendVars, connCount, closeCalls>>

\* The byte-level variables, at rest while the life cycle is explored.
TcpIdle ==
    /\ wire = <<>>
    /\ frames = <<>>
    /\ wirePos = 0
    /\ peerGone = FALSE
    /\ tcpPc = "idle"
    /\ want = 0
    /\ data = <<>>
    /\ header = <<0, 0>>
    /\ body = <<>>
    /\ delivered = <<>>
    /\ tcpError = "none"

\* The threads that use one pipe stream.
PipeThreads == {"t1", "t2", "t3"}

\* Both locks of a new PipeStream are unlocked (windows_pipe.py:22-23) and no
\* thread is inside it.
LocksIdle ==
    /\ _send_lock = "unlocked"
    /\ _recv_lock = "unlocked"
    /\ pipePc = [th \in PipeThreads |-> "idle"]
    /\ pipeAsked = [th \in PipeThreads |-> 0]
    /\ pipeOut = [th \in PipeThreads |-> <<"none", "none">>]

\* The variables of the stream explored alone, at rest.
StreamIdle ==
    /\ LocksIdle
    /\ impl = "none"
    /\ _socket = "none"
    /\ _handle = "none"
    /\ peer = "up"
    /\ avail = 0
    /\ arrived = 0
    /\ strPc = "idle"
    /\ call = "none"
    /\ asked = 0
    /\ gotBytes = 0
    /\ outcome = "none"
    /\ original_error = "None"
    /\ ioCalls = 0
    /\ closePc = "idle"
    /\ closeCount = 0
    /\ closeRaised = "none"

\* The engine's variables, at rest while the client is explored.
EngineIdle ==
    /\ _grammar_wrappers = <<>>
    /\ dirty = <<>>
    /\ exclusive = <<>>
    /\ state = <<>>
    /\ active = {}
    /\ lists = <<>>
    /\ touched = <<>>
    /\ calls = <<>>
    /\ _language = "en"
    /\ _queue = <<>>
    /\ queued = 0
    /\ executed = 0
    /\ sent = <<>>
    /\ conn = "down"
    /\ pumpPc = "idle"
    /\ cur = <<>>
    /\ visited = {}
    /\ curG = ""
    /\ recvPc = "idle"
    /\ backend = ""
    /\ inbound = 0
    /\ apiCalls = 0
    /\ events = <<>>

Init == ClientInit /\ TcpIdle /\ EngineIdle /\ StreamIdle

Receiver(t) ==
    \/ RecvHeader(t)
    \/ RecvBody(t)
    \/ Deliver(t)
    \/ Except(t)
    \/ RecvCloseStream(t)
    \/ RecvCloseClear(t)
    \/ Disconnect(t)

Next ==
    \/ (Connect /\ UNCHANGED <<tcpVars, engVars, strVars>>)
    \/ (ConnectAlive /\ UNCHANGED <<tcpVars, engVars, strVars>>)
    \/ (Close /\ UNCHANGED <<tcpVars, engVars, strVars>>)
    \/ (CloseStream /\ UNCHANGED <<tcpVars, engVars, strVars>>)
    \/ (CloseClear /\ UNCHANGED <<tcpVars, engVars, strVars>>)
    \/ (CloseJoin /\ UNCHANGED <<tcpVars, engVars, strVars>>)
    \/ (Send /\ UNCHANGED <<tcpVars, engVars, strVars>>)
    \/ (SendWrite /\ UNCHANGED <<tcpVars, engVars, strVars>>)
    \/ (SendExcept /\ UNCHANGED <<tcpVars, engVars, strVars>>)
    \/ (\E t \in StreamIds : Receiver(t) /\ UNCHANGED <<tcpVars, engVars, strVars>>)
    \/ (\E s \in StreamIds : PeerDrop(s) /\ UNCHANGED <<tcpVars, engVars, strVars>>)

Spec == Init /\ [][Next]_vars

\* Two threads call send() on the client while the application connects it
\* and the other end may drop the connection.
NextSenders ==
    \/ (Connect /\ UNCHANGED <<tcpVars, engVars, strVars>>)
    \/ (ConnectAlive /\ UNCHANGED <<tcpVars, engVars, strVars>>)
    \/ (\E th \in Senders : SenderPrep(th) /\ UNCHANGED <<tcpVars, engVars, strVars>>)
    \/ (\E th \in Senders : SenderWrite(th) /\ UNCHANGED <<tcpVars, engVars, strVars>>)
    \/ (\E t \in StreamIds : Receiver(t) /\ UNCHANGED <<tcpVars, engVars, strVars>>)
    \/ (\E s \in StreamIds : PeerDrop(s) /\ UNCHANGED <<tcpVars, engVars, strVars>>)

SpecSenders == Init /\ [][NextSenders]_vars

\* --------------------------------------------------- frames and TCPStream
\* How many frames the backend writes.
MaxFrames == 2

\* _DRACONITY_HEADER_STRUCT.size, client.py:11: two unsigned 32-bit integers.
HeaderSize == 8

\* The least number of bytes TCPStream.recv asks the socket for, stream.py:132.
ChunkSize == 2048

Min(a, b) == IF a < b THEN a ELSE b

Max(a, b) == IF a > b THEN a ELSE b

\* struct ">I": an unsigned 32-bit integer, most significant byte first.
BE32(n) == <<(n \div 16777216) % 256, (n \div 65536) % 256, (n \div 256) % 256, n % 256>>

\* (The four bytes read least significant first.)
UnBE32_reversed(b) == b[4] * 16777216 + b[3] * 65536 + b[2] * 256 + b[1]

UnBE32(b) == b[1] * 16777216 + b[2] * 65536 + b[3] * 256 + b[4]

\* BSON int32: least significant byte first.
LE32(n) == <<n % 256, (n \div 256) % 256, (n \div 65536) % 256, (n \div 16777216) % 256>>

UnLE32(b) == b[1] + b[2] * 256 + b[3] * 65536 + b[4] * 16777216

\* (A header with the size first.)
struct_pack_swapped(tid, size) == BE32(size) \o BE32(tid)

\* _DRACONITY_HEADER_STRUCT.pack(tid, size), client.py:11 and 235.
struct_pack(tid, size) == BE32(tid) \o BE32(size)

\* _DRACONITY_HEADER_STRUCT.unpack(header), client.py:135: struct.error unless
\* the buffer holds exactly the size of the struct.
struct_unpack(b) ==
    IF Len(b) = HeaderSize
    THEN <<"ok", UnBE32(SubSeq(b, 1, 4)), UnBE32(SubSeq(b, 5, 8))>>
    ELSE <<"struct.error", 0, 0>>

\* A document is a sequence of <<key, value>>: a one-letter key (its character
\* code) and an int32 value. bson.BSON.encode (client.py:233) writes the total
\* length, the elements (type 0x10, the key, NUL, the value) and a final NUL.
RECURSIVE encode_elements(_)
encode_elements(doc) ==
    IF doc = <<>> THEN <<>>
    ELSE <<16, doc[1][1], 0>> \o LE32(doc[1][2]) \o encode_elements(Tail(doc))

bson_encode(doc) ==
    LET el == encode_elements(doc) IN LE32(Len(el) + 5) \o el \o <<0>>

\* The elements of one document, or an error.
RECURSIVE decode_elements(_)
decode_elements(b) ==
    IF b = <<>> THEN <<"ok", <<>>>>
    ELSE IF Len(b) >= 7 /\ b[1] = 16 /\ b[2] # 0 /\ b[3] = 0
         THEN LET rest == decode_elements(SubSeq(b, 8, Len(b)))
              IN  IF rest[1] = "ok"
                  THEN <<"ok", <<<<b[2], UnLE32(SubSeq(b, 4, 7))>>>> \o rest[2]>>
                  ELSE rest
         ELSE <<"InvalidBSON", <<>>>>

\* bson.decode_all (client.py:146): the documents the bytes hold, one after
\* the other, or an error.
RECURSIVE decode_all(_)
decode_all(b) ==
    IF b = <<>> THEN <<"ok", <<>>>>
    ELSE IF Len(b) < 5 THEN <<"InvalidBSON", <<>>>>
    ELSE LET size == UnLE32(SubSeq(b, 1, 4))
         IN  IF size < 5 \/ size > Len(b) THEN <<"InvalidBSON", <<>>>>
             ELSE IF b[size] # 0 THEN <<"InvalidBSON", <<>>>>
             ELSE LET d == decode_elements(SubSeq(b, 5, size - 1))
                      rest == decode_all(SubSeq(b, size + 1, Len(b)))
                  IN  IF d[1] # "ok" THEN d
                      ELSE IF rest[1] # "ok" THEN rest
                      ELSE <<"ok", <<d[2]>> \o rest[2]>>

\* _receive_body, client.py:146: bson.decode_all(bson_body)[0].
decode_body(b) ==
    LET docs == decode_all(b)
    IN  IF docs[1] # "ok" THEN docs
        ELSE IF docs[2] = <<>> THEN <<"IndexError", <<>>>>
        ELSE <<"ok", docs[2][1]>>

\* _prep_message, client.py:233-237: the header, then the encoded document.
prep_message(tid, doc) ==
    LET bson_message == bson_encode(doc)
    IN  struct_pack(tid, Len(bson_message)) \o bson_message

\* The frames the backend may write: <<tid, document>>.
Tids == {0, 258}

Docs == {<<>>, <<<<97, 5>>>>}

FrameChoices == Tids \X Docs

RECURSIVE encode_frames(_)
encode_frames(fs) ==
    IF fs = <<>> THEN <<>>
    ELSE prep_message(fs[1][1], fs[1][2]) \o encode_frames(Tail(fs))

\* A TCPStream is connected to a backend that writes well-formed frames, and
\* _recv_messages starts on it: it calls self._stream.recv(8).
TcpInit ==
    /\ frames \in UNION {[1..n -> FrameChoices] : n \in 1..MaxFrames}
    /\ wire = encode_frames(frames)
    /\ wirePos = 0
    /\ peerGone = FALSE
    /\ tcpPc = "header"
    /\ want = HeaderSize
    /\ data = <<>>
    /\ header = <<0, 0>>
    /\ body = <<>>
    /\ delivered = <<>>
    /\ tcpError = "none"

\* TCPStream.recv, stream.py:132: how many bytes the next chunk may hold.
chunk_request(size, received) == Max(size - received, ChunkSize)

\* The loop of _recv_messages ends on an exception.
TcpFail(error) ==
    /\ tcpPc' = "failed"
    /\ tcpError' = error

\* TCPStream.recv(size) is entered, stream.py:129-131 and 136: with size 0 the
\* loop is skipped and reduce() of the empty list raises TypeError.
TcpRecv(pc, size) ==
    IF size = 0
    THEN TcpFail("TypeError") /\ UNCHANGED <<want, data>>
    ELSE tcpPc' = pc /\ want' = size /\ data' = <<>> /\ UNCHANGED tcpError

\* TCPStream.recv has returned the header, client.py:134-136 and 123-124: it
\* is unpacked and the body is asked for.
GotHeader(bytes) ==
    LET h == struct_unpack(bytes)
    IN  IF h[1] = "ok"
        THEN header' = <<h[2], h[3]>> /\ TcpRecv("body", h[3]) /\ UNCHANGED body
        ELSE TcpFail(h[1]) /\ UNCHANGED <<header, body, want, data>>

\* TCPStream.recv has returned the body, client.py:145-146: it is decoded.
GotBody(bytes) ==
    /\ body' = bytes
    /\ IF decode_body(bytes)[1] = "ok"
       THEN tcpPc' = "deliver" /\ UNCHANGED tcpError
       ELSE TcpFail(decode_body(bytes)[1])
    /\ UNCHANGED <<header, want, data>>

\* One turn of the loop of TCPStream.recv, stream.py:131-136 and 149-155: the
\* socket hands out at least one and at most the requested number of the bytes
\* that have arrived, whatever the segments they came in; recv returns all it
\* has collected once that is no less than the size asked for. With nothing
\* left and the peer gone the socket returns nothing and StreamError is raised.
RecvChunk ==
    /\ tcpPc \in {"header", "body"}
    /\ Len(data) < want
    /\ IF wirePos < Len(wire)
       THEN \E n \in 1..Min(chunk_request(want, Len(data)), Len(wire) - wirePos) :
                LET collected == data \o SubSeq(wire, wirePos + 1, wirePos + n)
                IN  /\ wirePos' = wirePos + n
                    /\ IF Len(collected) < want
                       THEN data' = collected /\ UNCHANGED <<tcpPc, want, header, body, tcpError>>
                       ELSE IF tcpPc = "header" THEN GotHeader(collected)
                            ELSE GotBody(collected)
       ELSE /\ peerGone
            /\ TcpFail("StreamError")
            /\ UNCHANGED <<wirePos, want, data, header, body>>
    /\ UNCHANGED <<wire, frames, peerGone, delivered>>

\* _recv_messages, client.py:105-106: the message goes to the callback and the
\* loop asks for the next header.
TcpDeliver ==
    /\ tcpPc = "deliver"
    /\ delivered' = Append(delivered, <<header[1], decode_body(body)[2]>>)
    /\ TcpRecv("header", HeaderSize)
    /\ UNCHANGED <<wire, frames, wirePos, peerGone, header, body>>

\* The backend closes its end once it has written its frames.
PeerClose ==
    /\ ~peerGone
    /\ peerGone' = TRUE
    /\ UNCHANGED <<wire, frames, wirePos, tcpPc, want, data, header, body, delivered,
                   tcpError>>

InitRecv == ClientInit /\ TcpInit /\ EngineIdle /\ StreamIdle

NextRecv ==
    \/ (RecvChunk /\ UNCHANGED <<clientVars, engVars, strVars>>)
    \/ (TcpDeliver /\ UNCHANGED <<clientVars, engVars, strVars>>)
    \/ (PeerClose /\ UNCHANGED <<clientVars, engVars, strVars>>)

SpecRecv == InitRecv /\ [][NextRecv]_vars

\* ---------------------------------------------------- frames of any body
\* The bodies a frame may carry: a document, nothing, a document followed by
\* a stray byte, two documents one after the other, and bytes that are no
\* document.
Bodies ==
    {bson_encode(d) : d \in Docs}
      \cup { <<>>,
             bson_encode(<<>>) \o <<7>>,
             bson_encode(<<>>) \o bson_encode(<< <<97, 5>> >>),
             <<5, 0, 0, 0, 1>> }

\* The bytes of frames given as <<tid, body>>: each body behind the header
\* that announces its length (client.py:11, 123-124).
RECURSIVE frame_bytes(_)
frame_bytes(fs) ==
    IF fs = <<>> THEN <<>>
    ELSE struct_pack(fs[1][1], Len(fs[1][2])) \o fs[1][2] \o frame_bytes(Tail(fs))

\* A TCPStream is connected to a backend that writes frames with bodies of
\* any kind, and _recv_messages starts on it.
InitFrames ==
    /\ ClientInit /\ EngineIdle /\ StreamIdle
    /\ frames \in UNION {[1..n -> {0} \X Bodies] : n \in 1..MaxFrames}
    /\ wire = frame_bytes(frames)
    /\ wirePos = 0
    /\ peerGone = FALSE
    /\ tcpPc = "header"
    /\ want = HeaderSize
    /\ data = <<>>
    /\ header = <<0, 0>>
    /\ body = <<>>
    /\ delivered = <<>>
    /\ tcpError = "none"

SpecFrames == InitFrames /\ [][NextRecv]_vars

\* ------------------------------------------------------- one stream alone
\* How many times close() may be called on the stream.
MaxCloses == 2
\* How many times send() and recv() may be called.
MaxIo == 3
\* How many bytes the other end writes, and the largest size recv is asked for.
MaxBytes == 2

\* A stream is connected on creation (stream.py:87-95, windows_pipe.py:21-24).
InitStream ==
    /\ ClientInit /\ TcpIdle /\ EngineIdle /\ LocksIdle
    /\ impl \in {"tcp", "pipe"}
    /\ _socket = (IF impl = "tcp" THEN "open" ELSE "none")
    /\ _handle = (IF impl = "pipe" THEN "open" ELSE "none")
    /\ peer = "up"
    /\ avail = 0
    /\ arrived = 0
    /\ strPc = "idle"
    /\ call = "none"
    /\ asked = 0
    /\ gotBytes = 0
    /\ outcome = "none"
    /\ original_error = "None"
    /\ ioCalls = 0
    /\ closePc = "idle"
    /\ closeCount = 0
    /\ closeRaised = "none"

\* self._socket.shutdown(socket.SHUT_RDWR), stream.py:105: what it may do. On
\* a socket that was shut down or closed it raises socket.error; when the
\* other end is gone it may.
socket_shutdown ==
    IF _socket # "open" THEN {"socket.error"}
    ELSE IF peer # "up" THEN {"ok", "socket.error"}
    ELSE {"ok"}

\* (A close() that catches nothing.)
close_catches_nothing(error) == FALSE

\* except socket.error: pass, stream.py:106-107.
close_catches(error) == error = "socket.error"

\* TCPStream.close, stream.py:104-107: the shutdown. An exception the except
\* clause does not catch leaves close().
StreamClose ==
    /\ impl = "tcp" /\ closePc = "idle"
    /\ closeCount < MaxCloses
    /\ closeCount' = closeCount + 1
    /\ \E r \in socket_shutdown :
         IF r = "ok" \/ close_catches(r)
         THEN closePc' = "close" /\ closeRaised' = "none"
         ELSE closePc' = "idle" /\ closeRaised' = r
    /\ _socket' = (IF _socket = "open" THEN "shut" ELSE _socket)
    /\ UNCHANGED <<impl, _handle, peer, avail, arrived, strPc, call, asked, gotBytes,
                   outcome, original_error, ioCalls>>

\* TCPStream.close, stream.py:108: self._socket.close(), which raises nothing
\* on a socket that is closed already.
StreamCloseSocket ==
    /\ impl = "tcp" /\ closePc = "close"
    /\ _socket' = "closed"
    /\ closePc' = "idle"
    /\ UNCHANGED <<impl, _handle, peer, avail, arrived, strPc, call, asked, gotBytes,
                   outcome, original_error, ioCalls, closeCount, closeRaised>>

\* self._socket.sendall(chunk), stream.py:113: what it may do.
socket_sendall ==
    IF _socket # "open" THEN {"socket.error"}
    ELSE IF peer # "up" THEN {"ok", "socket.error"}
    ELSE {"ok"}

\* TCPStream.send, stream.py:110-115.
StreamSend ==
    /\ impl = "tcp" /\ strPc = "idle"
    /\ ioCalls < MaxIo
    /\ ioCalls' = ioCalls + 1
    /\ call' = "send"
    /\ \E r \in socket_sendall :
         IF r = "ok"
         THEN outcome' = "returned" /\ original_error' = "None"
         ELSE outcome' = "StreamError" /\ original_error' = r
    /\ UNCHANGED <<impl, _socket, _handle, peer, avail, arrived, strPc, asked, gotBytes,
                   closePc, closeCount, closeRaised>>

\* TCPStream.recv is entered, stream.py:129-130.
StreamRecv(n) ==
    /\ impl = "tcp" /\ strPc = "idle"
    /\ ioCalls < MaxIo
    /\ ioCalls' = ioCalls + 1
    /\ call' = "recv"
    /\ strPc' = "recv"
    /\ asked' = n
    /\ gotBytes' = 0
    /\ outcome' = "none"
    /\ original_error' = "None"
    /\ UNCHANGED <<impl, _socket, _handle, peer, avail, arrived, closePc, closeCount,
                   closeRaised>>

\* self._socket.recv(size), stream.py:150: what it may do. On a closed socket
\* and after a reset it raises socket.error; after a shutdown, and when the
\* other end has closed and nothing is left, it returns no bytes; with nothing
\* to read on a live connection it blocks.
socket_recv ==
    IF _socket = "closed" THEN {"socket.error"}
    ELSE IF _socket = "shut" THEN {"empty"}
    ELSE IF peer = "reset" THEN {"socket.error"}
    ELSE IF avail > 0 THEN {"data"}
    ELSE IF peer = "gone" THEN {"empty"}
    ELSE {}

\* (A StreamError that never carries the error of the socket.)
recv_chunk_error_bare(r) == <<"StreamError", "None">>

\* _recv_chunk, stream.py:149-154: the exception it raises, and its
\* original_error (stream.py:34-35).
recv_chunk_error(r) ==
    IF r = "socket.error" THEN <<"StreamError", "socket.error">>
    ELSE <<"StreamError", "None">>

\* One turn of the loop of TCPStream.recv, stream.py:131-136.
StreamRecvChunk ==
    /\ impl = "tcp" /\ strPc = "recv"
    /\ \E r \in socket_recv :
         IF r = "data"
         THEN \E n \in 1..Min(chunk_request(asked, gotBytes), avail) :
                /\ avail' = avail - n
                /\ gotBytes' = gotBytes + n
                /\ IF gotBytes + n < asked
                   THEN UNCHANGED <<strPc, outcome, original_error>>
                   ELSE strPc' = "idle" /\ outcome' = "returned" /\ original_error' = "None"
         ELSE /\ strPc' = "idle"
              /\ outcome' = recv_chunk_error(r)[1]
              /\ original_error' = recv_chunk_error(r)[2]
              /\ UNCHANGED <<avail, gotBytes>>
    /\ UNCHANGED <<impl, _socket, _handle, peer, arrived, call, asked, ioCalls, closePc,
                   closeCount, closeRaised>>

\* win32file.CloseHandle(self._handle), windows_pipe.py:60: the handle is a
\* PyHANDLE, whose Close() closes the Win32 handle and raises nothing when it
\* is closed already. The state of the handle afterwards, and what is raised.
CloseHandle(h) == <<"closed", "none">>

\* PipeStream.close, windows_pipe.py:58-60.
PipeClose ==
    /\ impl = "pipe"
    /\ closeCount < MaxCloses
    /\ closeCount' = closeCount + 1
    /\ _handle' = CloseHandle(_handle)[1]
    /\ closeRaised' = CloseHandle(_handle)[2]
    /\ UNCHANGED <<impl, _socket, peer, avail, arrived, strPc, call, asked, gotBytes,
                   outcome, original_error, ioCalls, closePc>>

\* WriteFile and ReadFile with _get_result, windows_pipe.py:66-71, 80-83 and
\* 95-110: on a closed handle pywin32 raises pywintypes.error; with the other
\* end gone either that or _get_result's PipeError.
pipe_io ==
    IF _handle # "open" THEN {"pywintypes.error"}
    ELSE IF peer # "up" THEN {"pywintypes.error", "PipeError"}
    ELSE {"ok"}

\* The end of PipeStream.send and PipeStream.recv, windows_pipe.py:72-74 and
\* 84-86: on any exception the handle is closed and the exception goes on.
PipeIo(r) ==
    /\ ioCalls' = ioCalls + 1
    /\ original_error' = "None"
    /\ IF r = "ok"
       THEN outcome' = "returned" /\ UNCHANGED _handle
       ELSE outcome' = r /\ _handle' = CloseHandle(_handle)[1]

\* PipeStream.send, windows_pipe.py:62-74.
PipeSend ==
    /\ impl = "pipe"
    /\ ioCalls < MaxIo
    /\ call' = "send"
    /\ \E r \in pipe_io : PipeIo(r)
    /\ UNCHANGED <<impl, _socket, peer, avail, arrived, strPc, asked, gotBytes, closePc,
                   closeCount, closeRaised>>

\* PipeStream.recv, windows_pipe.py:76-86: it returns once the bytes asked for
\* are there.
PipeRecv(n) ==
    /\ impl = "pipe"
    /\ ioCalls < MaxIo
    /\ call' = "recv"
    /\ asked' = n
    /\ \E r \in pipe_io :
         /\ r = "ok" => avail >= n
         /\ PipeIo(r)
         /\ avail' = (IF r = "ok" THEN avail - n ELSE avail)
         /\ gotBytes' = (IF r = "ok" THEN n ELSE 0)
    /\ UNCHANGED <<impl, _socket, peer, arrived, strPc, closePc, closeCount, closeRaised>>

\* The other end writes a byte.
PeerWrite ==
    /\ peer = "up"
    /\ arrived < MaxBytes
    /\ arrived' = arrived + 1
    /\ avail' = avail + 1
    /\ UNCHANGED <<impl, _socket, _handle, peer, strPc, call, asked, gotBytes, outcome,
                   original_error, ioCalls, closePc, closeCount, closeRaised>>

\* The other end closes the connection, in order or with a reset.
PeerEnd(how) ==
    /\ peer = "up"
    /\ peer' = how
    /\ UNCHANGED <<impl, _socket, _handle, avail, arrived, strPc, call, asked, gotBytes,
                   outcome, original_error, ioCalls, closePc, closeCount, closeRaised>>

NextStream ==
    \/ (StreamClose /\ UNCHANGED <<clientVars, tcpVars, engVars, lockVars>>)
    \/ (StreamCloseSocket /\ UNCHANGED <<clientVars, tcpVars, engVars, lockVars>>)
    \/ (StreamSend /\ UNCHANGED <<clientVars, tcpVars, engVars, lockVars>>)
    \/ (\E n \in 1..MaxBytes : StreamRecv(n) /\ UNCHANGED <<clientVars, tcpVars, engVars, lockVars>>)
    \/ (StreamRecvChunk /\ UNCHANGED <<clientVars, tcpVars, engVars, lockVars>>)
    \/ (PipeClose /\ UNCHANGED <<clientVars, tcpVars, engVars, lockVars>>)
    \/ (PipeSend /\ UNCHANGED <<clientVars, tcpVars, engVars, lockVars>>)
    \/ (\E n \in 1..MaxBytes : PipeRecv(n) /\ UNCHANGED <<clientVars, tcpVars, engVars, lockVars>>)
    \/ (PeerWrite /\ UNCHANGED <<clientVars, tcpVars, engVars, lockVars>>)
    \/ (\E how \in {"gone", "reset"} : PeerEnd(how) /\ UNCHANGED <<clientVars, tcpVars, engVars, lockVars>>)

SpecStream == InitStream /\ [][NextStream]_vars

\* ------------------------------------------------------- one pipe stream, several threads
\* (A lock that any thread may take at any time.)
lock_free_always(lock) == TRUE

\* threading.Lock: `with lock` goes on only when no thread holds the lock
\* (windows_pipe.py:63 and 77).
lock_free(lock) == lock = "unlocked"

\* The calls of send and recv that have been entered so far.
PipeEntered == ioCalls + Cardinality({th \in PipeThreads : pipePc[th] # "idle"})

\* PipeStream.send is entered, windows_pipe.py:62-64: with self._send_lock.
PipeSendEnter(th) ==
    /\ pipePc[th] = "idle"
    /\ PipeEntered < MaxIo
    /\ lock_free(_send_lock)
    /\ _send_lock' = th
    /\ pipePc' = [pipePc EXCEPT ![th] = "write"]
    /\ UNCHANGED <<_recv_lock, pipeAsked, pipeOut>>
    /\ UNCHANGED <<impl, _socket, _handle, peer, avail, arrived, strPc, call, asked, gotBytes,
                   outcome, original_error, ioCalls, closePc, closeCount, closeRaised>>

\* PipeStream.send, windows_pipe.py:65-74: the write, its result or its
\* exception; leaving the with statement releases the lock either way.
PipeWriteFile(th) ==
    /\ pipePc[th] = "write"
    /\ call' = "send"
    /\ \E r \in pipe_io :
         /\ PipeIo(r)
         /\ pipeOut' = [pipeOut EXCEPT ![th] = <<"send", IF r = "ok" THEN "returned" ELSE r>>]
    /\ _send_lock' = "unlocked"
    /\ pipePc' = [pipePc EXCEPT ![th] = "idle"]
    /\ UNCHANGED <<_recv_lock, pipeAsked>>
    /\ UNCHANGED <<impl, _socket, peer, avail, arrived, strPc, asked, gotBytes, closePc,
                   closeCount, closeRaised>>

\* PipeStream.recv is entered, windows_pipe.py:76-78: with self._recv_lock.
PipeRecvEnter(th, n) ==
    /\ pipePc[th] = "idle"
    /\ PipeEntered < MaxIo
    /\ lock_free(_recv_lock)
    /\ _recv_lock' = th
    /\ pipePc' = [pipePc EXCEPT ![th] = "read"]
    /\ pipeAsked' = [pipeAsked EXCEPT ![th] = n]
    /\ UNCHANGED <<_send_lock, pipeOut>>
    /\ UNCHANGED <<impl, _socket, _handle, peer, avail, arrived, strPc, call, asked, gotBytes,
                   outcome, original_error, ioCalls, closePc, closeCount, closeRaised>>

\* PipeStream.recv, windows_pipe.py:79-86: the read returns once the bytes
\* asked for are there, or raises; leaving the with statement releases the
\* lock either way.
PipeReadFile(th) ==
    /\ pipePc[th] = "read"
    /\ call' = "recv"
    /\ asked' = pipeAsked[th]
    /\ \E r \in pipe_io :
         /\ r = "ok" => avail >= pipeAsked[th]
         /\ PipeIo(r)
         /\ avail' = (IF r = "ok" THEN avail - pipeAsked[th] ELSE avail)
         /\ gotBytes' = (IF r = "ok" THEN pipeAsked[th] ELSE 0)
         /\ pipeOut' = [pipeOut EXCEPT ![th] = <<"recv", IF r = "ok" THEN "returned" ELSE r>>]
    /\ _recv_lock' = "unlocked"
    /\ pipePc' = [pipePc EXCEPT ![th] = "idle"]
    /\ UNCHANGED <<_send_lock, pipeAsked>>
    /\ UNCHANGED <<impl, _socket, peer, arrived, strPc, closePc, closeCount, closeRaised>>

InitPipe == InitStream /\ impl = "pipe"

NextPipe ==
    \/ (\E th \in PipeThreads : PipeSendEnter(th) /\ UNCHANGED <<clientVars, tcpVars, engVars>>)
    \/ (\E th \in PipeThreads : PipeWriteFile(th) /\ UNCHANGED <<clientVars, tcpVars, engVars>>)
    \/ (\E th \in PipeThreads : \E n \in 1..MaxBytes :
            PipeRecvEnter(th, n) /\ UNCHANGED <<clientVars, tcpVars, engVars>>)
    \/ (\E th \in PipeThreads : PipeReadFile(th) /\ UNCHANGED <<clientVars, tcpVars, engVars>>)
    \/ (PipeClose /\ UNCHANGED <<clientVars, tcpVars, engVars, lockVars>>)
    \/ (PeerWrite /\ UNCHANGED <<clientVars, tcpVars, engVars, lockVars>>)
    \/ (\E how \in {"gone", "reset"} :
            PeerEnd(how) /\ UNCHANGED <<clientVars, tcpVars, engVars, lockVars>>)

SpecPipe == InitPipe /\ [][NextPipe]_vars

\* C2: the frames passed to the message callback are the frames written, in
\* wire order and once each: the loop never fails on well-formed frames while
\* the backend is there, each header it unpacks is that of the next frame,
\* and once the socket has handed out every byte every frame is delivered.
C2_OneCallbackPerFrame ==
    /\ Len(delivered) <= Len(frames)
    /\ \A i \in 1..Len(delivered) : delivered[i] = frames[i]
    /\ ~peerGone => tcpError = "none"
    /\ tcpPc = "failed" => tcpError = "StreamError" /\ delivered = frames
    /\ (wirePos = Len(wire) /\ tcpPc = "header" /\ data = <<>>) => delivered = frames

\* ------------------------------------------------------ DraconityEngine
\* How many documents the receive thread passes to the engine.
MaxInbound == 3
\* How many calls the application makes on the engine's grammar interface.
MaxCalls == 2

\* The application's grammars and their rules, in the order of grammar._rules
\* (engine.py:339). Every rule is exported.
Grammars == {"g1", "g2"}

Rules(g) == IF g = "g1" THEN <<"r1", "r2">> ELSE <<"r3">>

RuleNames == {"r1", "r2", "r3"}

RuleGrammar(r) == IF r = "r3" THEN "g2" ELSE "g1"

\* The outcome of `for _ in r.decode(s): if s.finished()` (engine.py:342-343)
\* for the utterances the backend reports.
Matches(r, phrase) ==
    CASE phrase = "both" -> r \in {"r1", "r2"}
      [] phrase = "second" -> r = "r2"
      [] phrase = "third" -> r = "r3"
      [] OTHER -> FALSE

\* getattr(wrapper.grammar, "process_recognition", None), engine.py:331: the
\* grammars that define the method.
HasProcessRecognition(g) == g = "g2"

\* A document is a record; a value is a string, with "{}" for a dictionary
\* without the key "cmd", "" for an empty list, and the integers in decimal.
Has(msg, key) == key \in DOMAIN msg

\* Python's truth value of a value.
Truthy(v) == v \notin {"", "false", "0"}

\* format_message (engine.py:24-32) raises KeyError on msg["cmd"]["cmd"] when
\* "cmd" holds a dictionary without that key.
format_message_raises(msg) == Has(msg, "cmd") /\ msg.cmd = "{}"

\* The messages the engine sends. (prep_auth and the other prep_ functions the
\* engine imports, engine.py:20.)
prep_auth == [cmd |-> "auth"]

prep_status == [cmd |-> "status"]

prep_mimic == [cmd |-> "mimic"]

prep_unpause(token) == [cmd |-> "unpause", token |-> token]

prep_grammar_unload(name) == [cmd |-> "g.unload", name |-> name]

prep_grammar_set(name) ==
    [cmd |-> "g.set", name |-> name, active_rules |-> {}, lists |-> "", exclusive |-> FALSE]

\* The documents the backend sends, by the traffic of a run; the n-th
\* document, if it is a pause, carries the token n.
Backends == {"pauses", "phrases", "status", "odd"}

InboundDocs(kind, n) ==
    CASE kind = "pauses" ->
           { [topic |-> "paused", token |-> n],
             [topic |-> "g.set", name |-> "g1", success |-> "false"] }
      [] kind = "phrases" ->
           { [topic |-> "phrase", cmd |-> "p.end", grammar |-> "g1", phrase |-> "both"],
             [topic |-> "phrase", cmd |-> "p.end", grammar |-> "g1", phrase |-> "second"],
             [topic |-> "phrase", cmd |-> "p.end", grammar |-> "g2", phrase |-> "third"] }
      [] kind = "status" ->
           { [language_id |-> "1"], [language_id |-> "-1"], [language_id |-> "7"] }
      [] OTHER ->
           { [topic |-> "paused"], [topic |-> "other"], [cmd |-> "{}"] }

\* How many documents a run of each traffic holds: only the pauses need the
\* longest runs.
InboundLimit(kind) == IF kind = "pauses" THEN MaxInbound ELSE MaxInbound - 1

\* (A loop that puts the newest function first.)
queue_function_front(f) ==
    /\ _queue' = << [n |-> queued + 1] @@ f >> \o _queue
    /\ queued' = queued + 1
    /\ UNCHANGED executed

\* _FunctionLoop.queue_function (engine.py:40-44): the function goes to the
\* end of the queue; it is numbered in the order of the puts.
queue_function(f) ==
    /\ _queue' = Append(_queue, [n |-> queued + 1] @@ f)
    /\ queued' = queued + 1
    /\ UNCHANGED executed

\* queue_send (engine.py:258-259), called on the main thread.
queue_send(msg) == queue_function([fn |-> "send", msg |-> msg, by |-> "main"])

\* The engine after __init__ (engine.py:72-110) and connect() (engine.py:
\* 123-136): the client is connected, its receive thread runs, and the
\* authentication and the status request are queued. The application is about
\* to load its grammars.
EngineInit ==
    /\ _grammar_wrappers = <<>>
    /\ dirty = [g \in Grammars |-> FALSE]
    /\ exclusive = [g \in Grammars |-> FALSE]
    /\ state = [g \in Grammars |-> prep_grammar_set(g)]
    /\ active = {}
    /\ lists = [g \in Grammars |-> ""]
    /\ touched = [g \in Grammars |-> 0]
    /\ calls = [g \in Grammars |-> 0]
    /\ _language = "en"
    /\ _queue = << [n |-> 1, fn |-> "send", msg |-> prep_auth, by |-> "main"],
                   [n |-> 2, fn |-> "send", msg |-> prep_status, by |-> "main"] >>
    /\ queued = 2
    /\ executed = 0
    /\ sent = <<>>
    /\ conn = "up"
    /\ pumpPc = "app"
    /\ cur = <<>>
    /\ visited = {}
    /\ curG = ""
    /\ recvPc = "recv"
    /\ backend \in Backends
    /\ inbound = 0
    /\ apiCalls = 0
    /\ events = <<>>

\* The names in the grammar table.
Loaded == {_grammar_wrappers[i] : i \in 1..Len(_grammar_wrappers)}

\* _iter_all_grammar_wrappers_dynamically (engine.py:139, 192 and 199): the
\* wrapper the loop visits next, the first in load order of those in the table
\* that it has not visited, or "" when there is none.
NextWrapper(seen) ==
    LET rest == SelectSeq(_grammar_wrappers, LAMBDA g : g \notin seen)
    IN  IF rest = <<>> THEN "" ELSE rest[1]

\* The application's code runs on the main thread: before _do_recognition,
\* and inside the callbacks the pump makes.
AppCode == pumpPc \in {"app", "process_begin", "recognition"}

\* One call of the grammar interface by the application.
ApiCall ==
    /\ AppCode
    /\ apiCalls < MaxCalls
    /\ apiCalls' = apiCalls + 1
    /\ UNCHANGED <<pumpPc, cur, curG, events, _language, sent, conn, recvPc, inbound, backend>>

\* load_grammar (engine.py:143-158) and GrammarWrapper.__init__ (engine.py:
\* 406-415).
load_grammar(g) ==
    /\ ApiCall
    /\ IF g \in Loaded
       THEN UNCHANGED <<grammarVars, visited>>
       ELSE /\ _grammar_wrappers' = Append(_grammar_wrappers, g)
            /\ state' = [state EXCEPT ![g] = prep_grammar_set(g)]
            /\ exclusive' = [exclusive EXCEPT ![g] = FALSE]
            /\ dirty' = [dirty EXCEPT ![g] = TRUE]
            /\ touched' = [touched EXCEPT ![g] = 1]
            /\ calls' = [calls EXCEPT ![g] = 0]
            /\ visited' = visited \ {g}
            /\ UNCHANGED <<active, lists>>
    /\ UNCHANGED loopVars

\* The message a queued send will write: a g.set message is the wrapper's
\* state dictionary itself (engine.py:200-202 and 446), read when it is sent.
Resolve(msg) == IF Has(msg, "ref") THEN state[msg.name] ELSE msg

\* unload_grammar (engine.py:160-170) of a loaded grammar: the wrapper leaves
\* the table and the unload message is queued. The wrapper is gone, so its
\* state dictionary stays as it is for the sends still queued.
unload_grammar(g) ==
    /\ _grammar_wrappers' = SelectSeq(_grammar_wrappers, LAMBDA h : h # g)
    /\ dirty' = [dirty EXCEPT ![g] = FALSE]
    /\ touched' = [touched EXCEPT ![g] = 0]
    /\ calls' = [calls EXCEPT ![g] = 0]
    /\ exclusive' = [exclusive EXCEPT ![g] = FALSE]
    /\ state' = [state EXCEPT ![g] = prep_grammar_set(g)]
    /\ _queue' = Append([i \in 1..Len(_queue) |->
                            IF _queue[i].fn = "send" /\ Has(_queue[i].msg, "ref")
                               /\ _queue[i].msg.name = g
                            THEN [_queue[i] EXCEPT !.msg = state[g]]
                            ELSE _queue[i]],
                        [n |-> queued + 1, fn |-> "send", msg |-> prep_grammar_unload(g),
                         by |-> "main"])
    /\ queued' = queued + 1
    /\ UNCHANGED <<executed, active, lists>>

UnloadGrammar(g) ==
    /\ ApiCall
    /\ g \in Loaded
    /\ unload_grammar(g)
    /\ UNCHANGED visited

\* Rule.activate and activate_rule (engine.py:208-214), Rule.deactivate and
\* deactivate_rule (engine.py:216-222): the rule changes its own flag, the
\* engine marks the wrapper.
\* (An engine that forgets to mark the wrapper.)
mark_dirty_never(g) == dirty

\* (An engine that marks a grammar it has no wrapper for.)
mark_dirty_unloaded(g) == [dirty EXCEPT ![g] = TRUE]

mark_dirty(g) == IF g \in Loaded THEN [dirty EXCEPT ![g] = TRUE] ELSE dirty

\* One more load, mutation or failure notice of a loaded grammar.
Touch(g) == IF g \in Loaded THEN [touched EXCEPT ![g] = @ + 1] ELSE touched

\* One more call of the four on a loaded grammar.
Call(g) == IF g \in Loaded THEN [calls EXCEPT ![g] = @ + 1] ELSE calls

activate_rule(r) ==
    /\ ApiCall
    /\ active' = active \cup {r}
    /\ dirty' = mark_dirty(RuleGrammar(r))
    /\ touched' = Touch(RuleGrammar(r))
    /\ calls' = Call(RuleGrammar(r))
    /\ UNCHANGED <<_grammar_wrappers, exclusive, state, lists, loopVars, visited>>

deactivate_rule(r) ==
    /\ ApiCall
    /\ active' = active \ {r}
    /\ dirty' = mark_dirty(RuleGrammar(r))
    /\ touched' = Touch(RuleGrammar(r))
    /\ calls' = Call(RuleGrammar(r))
    /\ UNCHANGED <<_grammar_wrappers, exclusive, state, lists, loopVars, visited>>

\* The list changes, then update_list (engine.py:224-230).
update_list(g, items) ==
    /\ ApiCall
    /\ lists' = [lists EXCEPT ![g] = items]
    /\ dirty' = mark_dirty(g)
    /\ touched' = Touch(g)
    /\ calls' = Call(g)
    /\ UNCHANGED <<_grammar_wrappers, exclusive, state, active, loopVars, visited>>

\* (A set_exclusiveness that leaves the flag alone.)
set_exclusiveness_quiet(g, value) ==
    /\ ApiCall
    /\ exclusive' = IF g \in Loaded THEN [exclusive EXCEPT ![g] = value] ELSE exclusive
    /\ touched' = IF exclusive[g] # value THEN Touch(g) ELSE touched
    /\ calls' = Call(g)
    /\ UNCHANGED <<_grammar_wrappers, dirty, state, active, lists, loopVars, visited>>

\* set_exclusiveness (engine.py:232-240).
set_exclusiveness(g, value) ==
    /\ ApiCall
    /\ IF g \in Loaded /\ exclusive[g] # value
       THEN /\ exclusive' = [exclusive EXCEPT ![g] = value]
            /\ dirty' = [dirty EXCEPT ![g] = TRUE]
       ELSE UNCHANGED <<exclusive, dirty>>
    /\ touched' = IF exclusive[g] # value THEN Touch(g) ELSE touched
    /\ calls' = Call(g)
    /\ UNCHANGED <<_grammar_wrappers, state, active, lists, loopVars, visited>>

\* mimic (engine.py:242-250).
mimic ==
    /\ ApiCall
    /\ queue_send(prep_mimic)
    /\ UNCHANGED <<grammarVars, visited>>

\* ------------------------------------------- the engine's receive thread
\* (A message callback that handles the document where it is, on the receive
\* thread: a failure notice marks the grammar dirty there.)
HandleMessageCallback_direct ==
    /\ recvPc = "recv"
    /\ conn = "up"
    /\ inbound < InboundLimit(backend)
    /\ inbound' = inbound + 1
    /\ \E msg \in InboundDocs(backend, inbound + 1) :
           IF "name" \in DOMAIN msg /\ msg.name \in Loaded
           THEN dirty' = [dirty EXCEPT ![msg.name] = TRUE] /\ UNCHANGED loopVars
           ELSE queue_function([fn |-> "handle", tid |-> 0, msg |-> msg, by |-> "recv"])
                /\ UNCHANGED dirty
    /\ UNCHANGED <<_grammar_wrappers, exclusive, state, active, lists, touched, calls,
                   pumpVars, _language, sent, conn, recvPc, apiCalls, backend>>

\* handle_message (engine.py:270-271), the client's message callback: the
\* handling of the document is queued.
HandleMessageCallback ==
    /\ recvPc = "recv"
    /\ conn = "up"
    /\ inbound < InboundLimit(backend)
    /\ inbound' = inbound + 1
    /\ \E msg \in InboundDocs(backend, inbound + 1) :
           queue_function([fn |-> "handle", tid |-> 0, msg |-> msg, by |-> "recv"])
    /\ UNCHANGED <<grammarVars, pumpVars, _language, sent, conn, recvPc, apiCalls, backend>>

\* The receive loop ends (client.py:107-111): the stream is closed and the
\* reference cleared, so a send fails from here on.
ConnectionLost ==
    /\ recvPc = "recv"
    /\ conn' = "down"
    /\ recvPc' = "closing"
    /\ UNCHANGED <<grammarVars, loopVars, pumpVars, _language, sent, inbound, apiCalls, backend>>

\* handle_disconnect (engine.py:264-265), the client's disconnect callback:
\* `finished` is queued, and the thread ends.
HandleDisconnectCallback ==
    /\ recvPc = "closing"
    /\ recvPc' = "done"
    /\ queue_function([fn |-> "finished", by |-> "recv"])
    /\ UNCHANGED <<grammarVars, pumpVars, _language, sent, conn, inbound, apiCalls, backend>>

\* ----------------------------------------------- the engine's main thread
\* _do_recognition (engine.py:254-255): the application hands the main thread
\* to the function loop.
DoRecognition ==
    /\ pumpPc = "app"
    /\ pumpPc' = "get"
    /\ UNCHANGED <<grammarVars, loopVars, cur, visited, curG, events, _language, sent,
                   conn, recvPc, inbound, apiCalls, backend>>

\* (A loop that hands out the newest function.)
Take_newest(kind) ==
    /\ pumpPc = "get"
    /\ _queue # <<>>
    /\ _queue[Len(_queue)].fn = kind
    /\ cur' = _queue[Len(_queue)]
    /\ _queue' = SubSeq(_queue, 1, Len(_queue) - 1)
    /\ executed' = _queue[Len(_queue)].n
    /\ UNCHANGED queued

\* _pump_message (engine.py:57-60): queue.get() hands out the oldest function.
Take(kind) ==
    /\ pumpPc = "get"
    /\ _queue # <<>>
    /\ Head(_queue).fn = kind
    /\ cur' = Head(_queue)
    /\ _queue' = Tail(_queue)
    /\ executed' = Head(_queue).n
    /\ UNCHANGED queued

\* The pump runs a queued client.send (engine.py:259; client.py:205-222). On a
\* client that is not connected send raises StreamError, which pump_messages
\* does not catch (engine.py:50-54).
PumpSend ==
    /\ Take("send")
    /\ IF conn = "up"
       THEN /\ sent' = Append(sent, Resolve(Head(_queue).msg))
            /\ events' = <<>>
            /\ pumpPc' = "get"
       ELSE /\ events' = << <<"raise", "StreamError">> >>
            /\ pumpPc' = "crashed"
            /\ UNCHANGED sent
    /\ UNCHANGED <<grammarVars, visited, curG, _language, conn, recvPc, inbound, apiCalls, backend>>

\* (A pump that takes Finished for an ordinary return.)
PumpFinished_goes_on ==
    /\ Take("finished")
    /\ events' = <<>>
    /\ pumpPc' = "get"
    /\ UNCHANGED <<grammarVars, visited, curG, _language, sent, conn, recvPc, inbound,
                   apiCalls, backend>>

\* The pump runs `finished` (engine.py:267-268): Finished ends pump_messages
\* (engine.py:53-54) and _do_recognition goes on to disconnect().
PumpFinished ==
    /\ Take("finished")
    /\ events' = <<>>
    /\ pumpPc' = "disconnect"
    /\ UNCHANGED <<grammarVars, visited, curG, _language, sent, conn, recvPc, inbound,
                   apiCalls, backend>>

\* What the dispatch of _handle_message leaves behind: what it called and
\* logged, where the main thread goes on, and the dirty flags.
Dispatched(ev, pc, g, d) ==
    /\ events' = ev
    /\ pumpPc' = pc
    /\ curG' = g
    /\ dirty' = d
    /\ visited' = {}

\* The exception handler of _handle_message (engine.py:309-310): the error is
\* logged and the handler returns.
Caught(ev, error) == Dispatched(Append(ev, <<"error", error>>), "get", curG, dirty)

\* (A phrase_end that decodes against the inactive rules too.)
phrase_end_any(results) ==
    LET decoded == SelectSeq(Rules(results.grammar),
                             LAMBDA r : Matches(r, results.phrase))
    IN  IF results.grammar \notin Loaded THEN Caught(<<>>, "AttributeError")
        ELSE IF decoded # <<>>
        THEN Dispatched(<< <<"notify_recognition", decoded[1]>>,
                           <<"process_recognition", decoded[1]>> >>,
                        "recognition", decoded[1], dirty)
        ELSE Dispatched(<< <<"warning", "failed to decode">> >>, "tail", curG, dirty)

\* phrase_end (engine.py:312-352).
phrase_end(results) ==
    IF ~Has(results, "grammar") THEN Caught(<<>>, "KeyError")
    ELSE IF results.grammar \notin Loaded THEN Caught(<<>>, "AttributeError")
    ELSE LET g == results.grammar
             decoded == SelectSeq(Rules(g),
                                  LAMBDA r : r \in active /\ Matches(r, results.phrase))
         IN  \E proceed \in IF HasProcessRecognition(g) THEN BOOLEAN ELSE {TRUE} :
                 IF ~proceed
                 THEN Dispatched(<<>>, "tail", curG, dirty)
                 ELSE IF decoded # <<>>
                 THEN Dispatched(<< <<"notify_recognition", decoded[1]>>,
                                    <<"process_recognition", decoded[1]>> >>,
                                 "recognition", decoded[1], dirty)
                 ELSE Dispatched(<< <<"warning", "failed to decode">> >>, "tail", curG,
                                 dirty)

\* (A handler that lets a g.set reply pass.)
g_set_reply_ignored(msg) == Dispatched(<<>>, "tail", curG, dirty)

\* _handle_message, engine.py:295-302: a g.set reply.
g_set_reply(msg) ==
    IF ~Has(msg, "success") THEN Caught(<<>>, "KeyError")
    ELSE IF Truthy(msg.success) THEN Dispatched(<<>>, "tail", curG, dirty)
    ELSE IF ~Has(msg, "name") THEN Caught(<< <<"warning", "g.set failed">> >>, "KeyError")
    ELSE IF msg.name \in Loaded
    THEN Dispatched(<< <<"warning", "g.set failed">> >>, "tail", curG,
                    [dirty EXCEPT ![msg.name] = TRUE])
    ELSE Dispatched(<< <<"warning", "g.set failed">>, <<"warning", "not loaded">> >>,
                    "tail", curG, dirty)

\* _handle_message, engine.py:283-289: a phrase message.
phrase(msg) ==
    IF ~Has(msg, "cmd") THEN Caught(<<>>, "KeyError")
    ELSE IF msg.cmd = "p.begin"
    THEN Dispatched(<< <<"notify_begin", "">> >>, "tail", curG, dirty)
    ELSE IF msg.cmd # "p.end" THEN Dispatched(<<>>, "tail", curG, dirty)
    ELSE IF ~Has(msg, "phrase") THEN Caught(<<>>, "KeyError")
    ELSE IF Truthy(msg.phrase) THEN phrase_end(msg)
    ELSE Dispatched(<<>>, "tail", curG, dirty)

\* A document that tells of a failed g.set of a grammar.
FailureNotice(msg) ==
    /\ Has(msg, "topic") /\ msg.topic = "g.set"
    /\ Has(msg, "success") /\ msg.success \in {"false", "0", ""}
    /\ Has(msg, "name")

\* The pump runs a queued _handle_message, engine.py:273-297: the document is
\* formatted for the log and dispatched on its topic. When format_message
\* raises, the handler's own call of format_message (engine.py:310) raises
\* again, out of _handle_message and out of pump_messages.
HandleMessage ==
    /\ Take("handle")
    /\ LET msg == Head(_queue).msg
       IN  IF format_message_raises(msg)
           THEN Dispatched(<< <<"raise", "KeyError">> >>, "crashed", curG, dirty)
           ELSE IF ~Has(msg, "topic") THEN Dispatched(<<>>, "tail", curG, dirty)
           ELSE IF msg.topic = "paused"
           THEN Dispatched(<<>>, IF NextWrapper({}) = "" THEN "flush" ELSE "begin", curG,
                           dirty)
           ELSE IF msg.topic = "phrase" THEN phrase(msg)
           ELSE IF msg.topic = "g.set" THEN g_set_reply(msg)
           ELSE Dispatched(<<>>, "tail", curG, dirty)
    /\ touched' = IF FailureNotice(Head(_queue).msg) THEN Touch(Head(_queue).msg.name)
                  ELSE touched
    /\ UNCHANGED <<_grammar_wrappers, exclusive, state, active, lists, calls, _language, sent,
                   conn, recvPc, inbound, apiCalls, backend>>

\* update_all_grammars, engine.py:192-197: process_begin is called on the
\* next wrapper; the application's code runs.
ProcessBegin ==
    /\ pumpPc = "begin"
    /\ curG' = NextWrapper(visited)
    /\ events' = Append(events, <<"process_begin", NextWrapper(visited)>>)
    /\ pumpPc' = "process_begin"
    /\ UNCHANGED <<grammarVars, loopVars, cur, visited, _language, sent, conn, recvPc,
                   inbound, apiCalls, backend>>

\* (A first loop that ends after the first wrapper.)
ProcessBeginReturn_first ==
    /\ pumpPc = "process_begin"
    /\ visited' = {} /\ pumpPc' = "flush"
    /\ UNCHANGED <<grammarVars, loopVars, cur, curG, events, _language, sent, conn,
                   recvPc, inbound, apiCalls, backend>>

\* process_begin returns; after the last wrapper the second loop begins.
ProcessBeginReturn ==
    /\ pumpPc = "process_begin"
    /\ IF NextWrapper(visited \cup {curG}) = ""
       THEN visited' = {} /\ pumpPc' = "flush"
       ELSE visited' = visited \cup {curG} /\ pumpPc' = "begin"
    /\ UNCHANGED <<grammarVars, loopVars, cur, curG, events, _language, sent, conn,
                   recvPc, inbound, apiCalls, backend>>

\* GrammarWrapper.update_state, engine.py:435-444: the state dictionary is
\* brought up to date in place.
update(g) ==
    [state[g] EXCEPT !.active_rules = {r \in RuleNames : RuleGrammar(r) = g /\ r \in active},
                     !.lists = lists[g],
                     !.exclusive = exclusive[g]]

\* (An update_state that reports a change every time.)
changed_always(g) == TRUE

\* GrammarWrapper.update_state, engine.py:434-436: was the wrapper dirty?
changed(g) == dirty[g]

\* update_all_grammars, engine.py:199-202, and update_state, engine.py:
\* 417-446, for the next wrapper: a dirty wrapper brings its state up to date
\* and the state is queued for sending; the flag is cleared.
UpdateState ==
    /\ pumpPc = "flush"
    /\ NextWrapper(visited) # ""
    /\ LET g == NextWrapper(visited)
       IN  /\ IF changed(g)
              THEN /\ state' = [state EXCEPT ![g] = update(g)]
                   /\ queue_send([cmd |-> "g.set", name |-> g, ref |-> TRUE])
              ELSE UNCHANGED <<state, loopVars>>
           /\ dirty' = [dirty EXCEPT ![g] = FALSE]
           /\ touched' = [touched EXCEPT ![g] = 0]
           /\ calls' = [calls EXCEPT ![g] = 0]
           /\ visited' = visited \cup {g}
           /\ events' = Append(events, <<"update_state", g>>)
    /\ UNCHANGED <<_grammar_wrappers, exclusive, active, lists, pumpPc, cur, curG,
                   _language, sent, conn, recvPc, inbound, apiCalls, backend>>

\* (A handler that goes on without the unpause message.)
Unpause_silent ==
    /\ pumpPc = "flush"
    /\ NextWrapper(visited) = ""
    /\ visited' = {}
    /\ pumpPc' = "tail"
    /\ UNCHANGED <<grammarVars, loopVars, cur, curG, events, _language, sent, conn, recvPc,
                   inbound, apiCalls, backend>>

\* _handle_message, engine.py:282: update_all_grammars has returned and the
\* unpause message for the token of the document is queued; a document
\* without a token raises KeyError, which the handler logs.
Unpause ==
    /\ pumpPc = "flush"
    /\ NextWrapper(visited) = ""
    /\ visited' = {}
    /\ IF Has(cur.msg, "token")
       THEN /\ queue_send(prep_unpause(cur.msg.token))
            /\ pumpPc' = "tail"
            /\ UNCHANGED events
       ELSE /\ events' = Append(events, <<"error", "KeyError">>)
            /\ pumpPc' = "get"
            /\ UNCHANGED loopVars
    /\ UNCHANGED <<grammarVars, cur, curG, _language, sent, conn, recvPc, inbound,
                   apiCalls, backend>>

\* phrase_end, engine.py:347-349: the rule's process_recognition returns, the
\* observers are notified and phrase_end returns.
RecognitionReturn ==
    /\ pumpPc = "recognition"
    /\ events' = Append(events, <<"notify_post_recognition", curG>>)
    /\ pumpPc' = "tail"
    /\ UNCHANGED <<grammarVars, loopVars, cur, visited, curG, _language, sent, conn,
                   recvPc, inbound, apiCalls, backend>>

\* (A table that knows one more identifier.)
_language_ids_wider == [id \in {"1", "7"} |-> IF id = "1" THEN "en" ELSE "xx"]

\* _language_ids, engine.py:398-401.
_language_ids == [id \in {"1"} |-> "en"]

\* _handle_message, engine.py:298-308: the language id and the success flag
\* of the document.
HandleTail ==
    /\ pumpPc = "tail"
    /\ pumpPc' = "get"
    /\ LET msg == cur.msg
           failed == Has(msg, "success") /\ ~Truthy(msg.success)
           failure == IF failed
                      THEN << <<"notify_failure", "">>, <<"error", "draconity">> >>
                      ELSE <<>>
       IN  IF ~Has(msg, "language_id")
           THEN events' = events \o failure /\ UNCHANGED <<_language, loopVars>>
           ELSE IF msg.language_id = "-1"
           THEN /\ queue_send(prep_status)
                /\ events' = events \o failure
                /\ UNCHANGED _language
           ELSE IF msg.language_id \in DOMAIN _language_ids
           THEN /\ _language' = _language_ids[msg.language_id]
                /\ events' = events \o failure
                /\ UNCHANGED loopVars
           ELSE /\ events' = Append(events, <<"error", "unknown language">>) \o failure
                /\ UNCHANGED <<_language, loopVars>>
    /\ UNCHANGED <<grammarVars, cur, visited, curG, sent, conn, recvPc, inbound, apiCalls, backend>>

\* disconnect, engine.py:139-140: the next wrapper is unloaded.
DisconnectUnload ==
    /\ pumpPc = "disconnect"
    /\ _grammar_wrappers # <<>>
    /\ unload_grammar(NextWrapper({}))
    /\ UNCHANGED <<pumpVars, _language, sent, conn, recvPc, inbound, apiCalls, backend>>

\* disconnect, engine.py:141: client.close() joins the receive thread, and
\* _do_recognition returns.
DisconnectClose ==
    /\ pumpPc = "disconnect"
    /\ _grammar_wrappers = <<>>
    /\ recvPc = "done"
    /\ conn' = "down"
    /\ pumpPc' = "returned"
    /\ UNCHANGED <<grammarVars, loopVars, cur, visited, curG, events, _language, sent,
                   recvPc, inbound, apiCalls, backend>>

InitEngine == ClientInit /\ TcpIdle /\ EngineInit /\ StreamIdle

Application ==
    \/ \E g \in Grammars : load_grammar(g)
    \/ \E g \in Grammars : UnloadGrammar(g)
    \/ \E r \in RuleNames : activate_rule(r)
    \/ \E r \in RuleNames : deactivate_rule(r)
    \/ \E items \in {"", "a"} \ {lists["g1"]} : update_list("g1", items)
    \/ \E value \in BOOLEAN : set_exclusiveness("g1", value)
    \/ mimic

NextEngine ==
    \/ (Application /\ UNCHANGED <<clientVars, tcpVars, strVars>>)
    \/ (HandleMessageCallback /\ UNCHANGED <<clientVars, tcpVars, strVars>>)
    \/ (ConnectionLost /\ UNCHANGED <<clientVars, tcpVars, strVars>>)
    \/ (HandleDisconnectCallback /\ UNCHANGED <<clientVars, tcpVars, strVars>>)
    \/ (DoRecognition /\ UNCHANGED <<clientVars, tcpVars, strVars>>)
    \/ (PumpSend /\ UNCHANGED <<clientVars, tcpVars, strVars>>)
    \/ (PumpFinished /\ UNCHANGED <<clientVars, tcpVars, strVars>>)
    \/ (HandleMessage /\ UNCHANGED <<clientVars, tcpVars, strVars>>)
    \/ (ProcessBegin /\ UNCHANGED <<clientVars, tcpVars, strVars>>)
    \/ (ProcessBeginReturn /\ UNCHANGED <<clientVars, tcpVars, strVars>>)
    \/ (UpdateState /\ UNCHANGED <<clientVars, tcpVars, strVars>>)
    \/ (Unpause /\ UNCHANGED <<clientVars, tcpVars, strVars>>)
    \/ (RecognitionReturn /\ UNCHANGED <<clientVars, tcpVars, strVars>>)
    \/ (HandleTail /\ UNCHANGED <<clientVars, tcpVars, strVars>>)
    \/ (DisconnectUnload /\ UNCHANGED <<clientVars, tcpVars, strVars>>)
    \/ (DisconnectClose /\ UNCHANGED <<clientVars, tcpVars, strVars>>)

SpecEngine == InitEngine /\ [][NextEngine]_vars

\* ------------------------------------------------------------------ claims
\* The tids send() has returned, in the order of the calls: a call returns its
\* tid exactly when its frame was written.
ReturnedTids == [i \in 1..Len(written) |-> written[i][2]]

StrictlyIncreasing(q) == \A i, j \in 1..Len(q) : i < j => q[i] < q[j]

\* How often thread t has invoked the callback `kind`.
Calls(t, kind) == Cardinality({i \in 1..Len(cbLog[t]) : cbLog[t][i][1] = kind})

C3_DisconnectOnce ==
    \A t \in StreamIds :
        rpc[t] # "retired" => Calls(t, "disconnect") = IF rpc[t] = "done" THEN 1 ELSE 0

\* A loop ended by close() while its read was blocked has finished.
C3_Witness ==
    \E t \in StreamIds :
        rpc[t] = "done" /\ cause[t] = "closed" /\ Calls(t, "disconnect") = 1

\* C4: once a loop that ended on an exception of the read or the decoding, on
\* a connection close() was not called on, is past its handler, it has invoked
\* the error callback once, with that exception, and before the disconnect
\* callback.
C4_ErrorThenDisconnect ==
    \A t \in StreamIds :
        (/\ cause[t] \in {"peer", "decode"}
         /\ ~closeCalls[t]
         /\ rpc[t] \in {"close_stream", "close_clear", "disconnect", "done"})
        => cbLog[t] = IF rpc[t] = "done"
                      THEN <<<<"error", cause[t]>>, <<"disconnect", "">>>>
                      ELSE <<<<"error", cause[t]>>>>

\* A loop ended by a frame that does not decode has reported it and finished.
C4_Witness ==
    \E t \in StreamIds :
        /\ rpc[t] = "done"
        /\ cause[t] = "decode"
        /\ ~closeCalls[t]
        /\ cbLog[t] = <<<<"error", "decode">>, <<"disconnect", "">>>>

\* C5: a loop ended by close() (its read failed on the stream close() closed,
\* or found the stream reference cleared) never invokes the error callback;
\* and the flag is "False" on a connection close() has not been called on.
C5_CloseIsNotAnError ==
    /\ \A t \in StreamIds :
           cause[t] \in {"closed", "noref"} => Calls(t, "error") = 0
    /\ (connCount >= 1 /\ ~closeCalls[connCount]) => _deliberately_closed = "False"

\* The second connection, ended by close(): only the disconnect callback ran.
C5_Witness ==
    /\ connCount = 2
    /\ rpc[2] = "done"
    /\ cause[2] = "closed"
    /\ cbLog[2] = <<<<"disconnect", "">>>>

\* C6: when close() has returned, the receive thread of the connection has
\* finished (so it delivers no more messages), its disconnect callback has
\* run, the stream reference is cleared and the client is not connected.
C6_CloseJoins ==
    (mainPc = "idle" /\ lastOp = "close" /\ result = "ok")
    => /\ rpc[connCount] = "done"
       /\ Calls(connCount, "disconnect") = 1
       /\ _stream = None
       /\ ~(_stream # None /\ _receiver # None /\ isAlive(_receiver))

\* close() has returned on a connection whose loop it ended.
C6_Witness ==
    /\ mainPc = "idle"
    /\ lastOp = "close"
    /\ result = "ok"
    /\ cause[connCount] = "closed"

\* C7: a send() that finds no stream reference raises StreamError and writes
\* nothing.
C7_SendNotConnected ==
    [][/\ (mainPc = "send_write" /\ mainPc' # "send_write" /\ _stream = None)
          => (mainPc' = "send_except" /\ written' = written)
       /\ (mainPc = "send_except" /\ mainPc' # "send_except")
          => (mainPc' = "idle" /\ result' = "StreamError" /\ written' = written)]_vars

\* A send() found the reference cleared by the receive thread, not by close().
C7_Witness ==
    /\ mainPc = "send_except"
    /\ connCount >= 1
    /\ ~closeCalls[connCount]

\* C8: connect() on a connected client raises RuntimeError and changes
\* nothing: the stream, the thread, the flag and the receive loops stay.
C8_ConnectWhileConnected ==
    [][(/\ mainPc = "connect_alive"
        /\ mainPc' = "idle"
        /\ _stream # None
        /\ _receiver # None
        /\ rpc[_receiver] \notin {"unstarted", "done", "retired"})
       => (/\ result' = "RuntimeError"
           /\ UNCHANGED <<_stream, _receiver, _deliberately_closed, rpc, streamState,
                          connCount>>)]_vars

\* connect() has raised on a client that is still connected.
C8_Witness ==
    /\ mainPc = "idle"
    /\ lastOp = "connect"
    /\ result = "RuntimeError"
    /\ _stream # None
    /\ rpc[_stream] \in {"header", "body", "deliver"}

\* C9: close() on a client that was never connected raises nothing, invokes no
\* callback and leaves the client not connected.
C9_CloseNeverConnected ==
    (mainPc = "idle" /\ lastOp = "close" /\ connCount = 0)
    => /\ result = "ok"
       /\ \A t \in StreamIds : cbLog[t] = <<>>
       /\ _stream = None

\* C10: when close() has returned the client is not connected, and a
\* connect() that follows it succeeds: the new stream is installed and its
\* receive loop runs.
C10_Reconnect ==
    [][/\ (mainPc # "idle" /\ mainPc' = "idle" /\ lastOp' = "close" /\ result' = "ok")
          => (_stream' = None /\ rpc'[_receiver'] = "done")
       /\ (mainPc = "idle" /\ lastOp = "close" /\ result = "ok" /\ lastOp' = "connect")
          => /\ mainPc' = "idle"
             /\ result' = "ok"
             /\ connCount' = connCount + 1
             /\ _stream' = connCount'
             /\ _receiver' = connCount'
             /\ streamState'[connCount'] = "open"
             /\ rpc'[connCount'] = "header"]_vars

\* The second connect()/close() cycle on one client is complete.
C10_Witness ==
    /\ connCount = 2
    /\ rpc[1] = "retired"
    /\ mainPc = "idle"
    /\ lastOp = "close"
    /\ result = "ok"
    /\ cause[2] = "closed"

\* The streams this client has installed and not closed.
OpenStreams == {s \in StreamIds : streamState[s] \in {"open", "dropped"}}

\* C11: the client owns at most one open stream at a time; connect() installs
\* a stream only when every earlier one has been closed and the reference is
\* cleared; and a receive thread that has yet to leave its loop and close its
\* stream finds in the reference its own stream or none, so it never reads or
\* closes the stream of a later connection.
C11_OneOpenStream ==
    /\ [](/\ Cardinality(OpenStreams) <= 1
          /\ OpenStreams \subseteq {_stream}
          /\ \A t \in StreamIds :
                 rpc[t] \in {"header", "body", "deliver", "except", "close_stream",
                             "close_clear"}
                 => _stream \in {None, t})
    /\ [][connCount' # connCount
          => /\ _stream = None
             /\ OpenStreams = {}
             /\ \A s \in 1..connCount : streamState[s] = "closed"
             /\ OpenStreams' = {connCount'}]_vars

\* The second connection is up while the thread of the first, whose loop ended
\* on its own, has yet to make its disconnect callback.
C11_Witness ==
    /\ connCount = 2
    /\ rpc[1] = "disconnect"
    /\ streamState[1] = "closed"
    /\ streamState[2] = "open"
    /\ _stream = 2
    /\ rpc[2] = "body"

\* The messages of the sends still queued, as they would be written now.
Pending ==
    LET sends == SelectSeq(_queue, LAMBDA f : f.fn = "send")
    IN  [i \in 1..Len(sends) |-> Resolve(sends[i].msg)]

\* Every message the engine has handed to the loop: those sent, then those
\* still queued.
Outbound == sent \o Pending

\* How many messages of a kind name the grammar or token `key`.
Count(msgs, cmd, key) ==
    Cardinality({i \in 1..Len(msgs) :
                    /\ msgs[i].cmd = cmd
                    /\ IF cmd = "unpause" THEN msgs[i].token = key ELSE msgs[i].name = key})

\* The main thread visits a wrapper in the second loop of update_all_grammars.
FlushStep == pumpPc = "flush" /\ visited' # visited /\ visited' # {}

\* C12: when the flush visits a wrapper, it queues one set message for that
\* grammar if the wrapper is dirty and nothing if it is not, visits no wrapper
\* twice, and leaves the flag false; when the flush is over every loaded
\* grammar's flag is false; and a flag turns true only in a call of the
\* grammar interface or in the handling of a g.set reply.
C12_FlushIffDirty ==
    [][/\ FlushStep
          => LET g == NextWrapper(visited)
             IN  /\ g \in Loaded /\ g \notin visited /\ visited' = visited \cup {g}
                 /\ IF dirty[g]
                    THEN /\ Len(_queue') = Len(_queue) + 1
                         /\ _queue'[Len(_queue')].fn = "send"
                         /\ _queue'[Len(_queue')].msg.cmd = "g.set"
                         /\ _queue'[Len(_queue')].msg.name = g
                    ELSE _queue' = _queue
                 /\ dirty' = [dirty EXCEPT ![g] = FALSE]
       /\ (pumpPc = "flush" /\ pumpPc' # "flush")
          => \A g \in Loaded : ~dirty[g] /\ ~dirty'[g]
       /\ (\E g \in Grammars : ~dirty[g] /\ dirty'[g])
          => \/ apiCalls' = apiCalls + 1
             \/ (executed' # executed /\ cur'.fn = "handle" /\ Has(cur'.msg, "topic")
                 /\ cur'.msg.topic = "g.set")]_vars

\* The flush of the second pause has visited both grammars: g1, sent by the
\* first flush and clean since, was passed over, and g2, loaded since, was
\* queued.
C12_Witness ==
    /\ pumpPc = "flush"
    /\ cur.msg = [topic |-> "paused", token |-> 2]
    /\ visited = {"g1", "g2"}
    /\ Count(Outbound, "g.set", "g1") = 1
    /\ Count(Outbound, "g.set", "g2") = 1
    /\ Pending # <<>>
    /\ Pending[Len(Pending)].name = "g2"

\* The messages of a kind for `key` that the step queues.
Queues(cmd, key) ==
    Cardinality({i \in 1..Len(_queue') :
                    /\ _queue'[i].n > queued
                    /\ _queue'[i].fn = "send"
                    /\ _queue'[i].msg.cmd = cmd
                    /\ IF cmd = "unpause" THEN _queue'[i].msg.token = key
                       ELSE _queue'[i].msg.name = key})

\* C13: exactly one set message for a grammar is queued when the flush
\* visits its wrapper after one or more loads, mutations or failure notices
\* since the last visit, and none in any other step: not when the flush
\* visits a wrapper nothing has touched, and not between flush points.
C13_OneSetPerFlush ==
    [][\A g \in Grammars :
          Queues("g.set", g)
            = IF FlushStep /\ NextWrapper(visited) = g /\ touched[g] >= 1
              THEN 1 ELSE 0]_vars

\* The flush of the second pause has visited g1, loaded before the first pause
\* and changed by an activation between the two: each flush made one set
\* message for it.
C13_Witness ==
    /\ pumpPc = "flush"
    /\ cur.msg = [topic |-> "paused", token |-> 2]
    /\ visited = {"g1"}
    /\ apiCalls = 2
    /\ active = {"r1"}
    /\ Count(Outbound, "g.set", "g1") = 2

\* The pump takes the handling of a failure notice that names a loaded grammar.
HandlesFailure(g) ==
    /\ executed' # executed
    /\ cur'.fn = "handle"
    /\ FailureNotice(cur'.msg)
    /\ cur'.msg.name = g
    /\ g \in Loaded

\* C14: handling a g.set failure notice that names a loaded grammar sets that
\* grammar's flag, whatever the transaction id and whether or not the flag was
\* set, and queues nothing; a set flag stays set until the flush visits the
\* wrapper or the grammar is unloaded; and the flush, visiting a wrapper whose
\* flag is set, queues a set message for it. So every notice is followed by one
\* more set message at the next flush, with no mutation needed.
C14_FailureResends ==
    [][\A g \in Grammars :
          /\ HandlesFailure(g) => dirty'[g] /\ queued' = queued
          /\ (dirty[g] /\ ~dirty'[g])
             => \/ FlushStep /\ NextWrapper(visited) = g
                \/ g \in Loaded /\ _grammar_wrappers' = SelectSeq(_grammar_wrappers,
                                                                  LAMBDA h : h # g)
          /\ (FlushStep /\ NextWrapper(visited) = g /\ dirty[g])
             => Queues("g.set", g) = 1]_vars

\* g1 was loaded and never changed. The first pause sent it, a failure notice
\* followed, and the flush of the next pause has queued it again.
C14_Witness ==
    /\ pumpPc = "flush"
    /\ cur.msg = [topic |-> "paused", token |-> 3]
    /\ visited = {"g1"}
    /\ apiCalls = 1
    /\ Count(Outbound, "g.set", "g1") = 2
    /\ Pending # <<>>
    /\ Pending[Len(Pending)].cmd = "g.set"

\* The handler of a pause leaves update_all_grammars.
FlushEnd == pumpPc = "flush" /\ pumpPc' # "flush"

Mutates(g) == calls'[g] = calls[g] + 1

\* What the four calls leave alone: the queue, the messages sent, the
\* connection, the grammar table, the state last made for each grammar, and
\* the flag, the exclusiveness and the list of every other grammar.
LeavesTheRest(g) ==
    /\ UNCHANGED <<loopVars, sent, conn, _grammar_wrappers, state, pumpVars>>
    /\ \A h \in Grammars \ {g} :
           /\ dirty'[h] = dirty[h]
           /\ exclusive'[h] = exclusive[h]
           /\ lists'[h] = lists[h]
           /\ \A r \in RuleNames : RuleGrammar(r) = h => (r \in active' <=> r \in active)

\* C16 (as amended): activate_rule, deactivate_rule and update_list on a
\* loaded grammar, and set_exclusiveness with a value other than the current
\* one, leave the grammar's flag set; set_exclusiveness with the current value
\* changes nothing, the flag included. None of the four queues or sends a
\* message or touches another grammar or the connection.
C16_MutationMarksDirty ==
    [][\A g \in Grammars :
          Mutates(g)
            => /\ LeavesTheRest(g)
               /\ IF touched'[g] = touched[g] + 1
                  THEN dirty'[g]
                  ELSE <<dirty, exclusive, active, lists>>' = <<dirty, exclusive, active, lists>>]_vars

\* From g1's first flush on its flag is clear; the application has then set
\* its exclusiveness: the flag is set and nothing was queued for it.
C16_Witness ==
    /\ Loaded = {"g1"}
    /\ calls["g1"] = 1
    /\ touched["g1"] = 1
    /\ exclusive["g1"]
    /\ dirty["g1"]
    /\ Count(Outbound, "g.set", "g1") = 1

\* C16 as stated: each of the four calls on a loaded grammar leaves its flag
\* set.
C16_AsStated == [][\A g \in Grammars : Mutates(g) => dirty'[g]]_vars

\* C17 as stated: every unload message made by unload_grammar, also by the
\* calls disconnect() makes, is sent to the backend: when _do_recognition has
\* returned none is still waiting in the queue.
C17_UnloadsAreSent ==
    pumpPc = "returned" => \A g \in Grammars : Count(Pending, "g.unload", g) = 0

\* C18 as stated: whatever the document, no exception escapes the message
\* handler: the main thread is never stopped by an exception raised while it
\* handles a document.
C18_HandlerNeverRaises == ~(pumpPc = "crashed" /\ cur.fn = "handle")

\* The pump takes the handling of a phrase end message with a phrase, for a
\* loaded grammar.
HandlesPhraseEnd ==
    /\ executed' # executed
    /\ cur'.fn = "handle"
    /\ Has(cur'.msg, "topic") /\ cur'.msg.topic = "phrase"
    /\ Has(cur'.msg, "cmd") /\ cur'.msg.cmd = "p.end"
    /\ Has(cur'.msg, "phrase") /\ cur'.msg.phrase # ""
    /\ Has(cur'.msg, "grammar") /\ cur'.msg.grammar \in Loaded

\* The first rule of the grammar, in its own order, that is active and decodes
\* the phrase, or "" when there is none.
FirstMatch(g, words) ==
    LET ms == {i \in 1..Len(Rules(g)) : Rules(g)[i] \in active /\ Matches(Rules(g)[i], words)}
    IN  IF ms = {} THEN "" ELSE Rules(g)[CHOOSE i \in ms : \A j \in ms : i <= j]

\* The handlers of the rules the running function has invoked.
Invoked == SelectSeq(events, LAMBDA e : e[1] = "process_recognition")

\* The grammar's own process_recognition stopped the recognition: nothing was
\* invoked or logged for a rule.
StoppedByGrammar(g) == HasProcessRecognition(g) /\ events' = <<>>

\* C19 (as amended): on a phrase end message with a phrase for a loaded
\* grammar, unless the grammar's own process_recognition returns false: when
\* an active rule decodes the phrase the handler of the first such rule, and of
\* no other, is invoked; when none does no handler is invoked and a warning is
\* the only thing logged. No function invokes more than one handler.
C19_FirstMatchInvokedOnce ==
    /\ [](Len(Invoked) <= 1)
    /\ [][HandlesPhraseEnd
            => LET g == cur'.msg.grammar
                   r == FirstMatch(g, cur'.msg.phrase)
               IN  \/ StoppedByGrammar(g)
                   \/ /\ r # ""
                      /\ Invoked' = << <<"process_recognition", r>> >>
                      /\ curG' = r
                   \/ /\ r = ""
                      /\ events' = << <<"warning", "failed to decode">> >>]_vars

\* The grammar g1 has the rules r1 and r2, of which r2 is active; the phrase
\* would decode against either, and the handler of r2 is running.
C19_Witness ==
    /\ pumpPc = "recognition"
    /\ cur.msg.phrase = "both"
    /\ active = {"r2"}
    /\ Invoked = << <<"process_recognition", "r2">> >>

\* C19 as stated: whenever an active rule decodes the phrase, the handler of
\* the first such rule is invoked.
C19_AsStated ==
    [][HandlesPhraseEnd /\ FirstMatch(cur'.msg.grammar, cur'.msg.phrase) # ""
         => Invoked' = << <<"process_recognition",
                            FirstMatch(cur'.msg.grammar, cur'.msg.phrase)>> >>]_vars

\* C20: the functions are numbered in the order of their puts, whichever
\* thread made them. The queue holds, oldest first, exactly the functions
\* numbered after the one executed last; the pump takes a function only when
\* the one before has returned, takes the oldest, and so executes the
\* functions in the order of their numbers, none twice and none skipped; a step
\* that queues a function executes none.
C20_FifoOneAtATime ==
    /\ [](/\ queued = executed + Len(_queue)
          /\ \A i \in 1..Len(_queue) : _queue[i].n = executed + i)
    /\ [][/\ executed' # executed
             => /\ pumpPc = "get"
                /\ executed' = executed + 1
                /\ cur' = Head(_queue)
                /\ cur'.n = executed'
                /\ _queue' = Tail(_queue)
                /\ queued' = queued
          /\ queued' # queued
             => /\ executed' = executed
                /\ cur' = cur
                /\ Len(_queue') = Len(_queue) + 1
                /\ \A i \in 1..Len(_queue) : _queue'[i].n = _queue[i].n /\ _queue'[i].fn = _queue[i].fn]_vars

\* While the main thread is inside a callback of the third function, the
\* queue holds a function put by the receive thread, one put by the main
\* thread and another put by the receive thread, in that order.
C20_Witness ==
    /\ pumpPc = "process_begin"
    /\ executed = 3
    /\ Len(_queue) = 3
    /\ _queue[1].by = "recv" /\ _queue[2].by = "main" /\ _queue[3].by = "recv"

\* pump_messages has ended: by Finished, or by another exception.
PumpEnded == pumpPc \in {"disconnect", "returned", "crashed"}

\* C21: pump_messages takes the functions one after the other in the order of
\* their numbers, so each one ahead of the finishing one has run once when
\* that one is taken; the function that raises Finished ends the loop, which
\* returns to _do_recognition without an exception; once the loop has ended no
\* function is taken, so those behind stay in the queue; and on an empty queue
\* the loop waits.
C21_PumpUntilFinished ==
    /\ [](pumpPc \in {"disconnect", "returned"}
            => /\ cur.fn = "finished"
               /\ executed = cur.n
               /\ events = <<>>
               /\ \A i \in 1..Len(_queue) : _queue[i].n > cur.n)
    /\ [][/\ executed' # executed
             => /\ executed' = executed + 1
                /\ cur'.fn = "finished" <=> pumpPc' = "disconnect"
          /\ PumpEnded => executed' = executed /\ cur' = cur
          /\ (pumpPc = "get" /\ _queue = <<>>) => (pumpPc' = "get" /\ executed' = executed)]_vars

\* _do_recognition has returned through `finished`, the fourth function; an
\* unpause message queued behind it was not sent.
C21_Witness ==
    /\ pumpPc = "returned"
    /\ cur.fn = "finished"
    /\ executed = 4
    /\ Len(sent) = 2
    /\ Count(Pending, "unpause", 1) = 1

\* C22 as stated: once the receive loop has ended, pump_messages does not end
\* with an exception: it ends through `finished` or is still on its way there.
C22_PumpReturnsThroughFinished == conn = "down" => pumpPc # "crashed"

\* C23 as stated: TCPStream.recv(n) never collects more than the n bytes it
\* was asked for: what the socket hands out in one turn of its loop, added to
\* what recv holds, is no more than n.
C23_RecvExactly ==
    [][wirePos' # wirePos => Len(data) + (wirePos' - wirePos) <= want]_vars

\* C24 as stated: only a frame whose body decodes as exactly one document is
\* passed to the message callback.
C24_OnlyWholeBodiesDelivered ==
    \A i \in 1..Len(delivered) :
        /\ decode_all(frames[i][2])[1] = "ok"
        /\ Len(decode_all(frames[i][2])[2]) = 1

\* The frame send() hands to the stream for a document, with the tid it has
\* been assigned, is the header and the body and nothing else: eight bytes,
\* the tid and then the length of the body, each as four bytes with the most
\* significant first, and behind them the encoded document.
FrameOf(tid, doc) ==
    LET f == prep_message(tid, doc)
    IN  /\ Len(f) = HeaderSize + Len(bson_encode(doc))
        /\ SubSeq(f, 1, 4) = BE32(tid)
        /\ SubSeq(f, 5, 8) = BE32(Len(bson_encode(doc)))
        /\ SubSeq(f, 9, Len(f)) = bson_encode(doc)

\* C25: a send() that returns has made one call of the stream's send, with
\* that frame, on the stream of that moment, and returns the tid of the frame's
\* header; a send() that raises has written nothing; nothing is written outside
\* send(); and the step that returns is the step that writes, so no reply and
\* no step of a receive thread is waited for.
C25_SendWritesOneFrame ==
    /\ [](mainPc \in {"send_write", "send_except"} => \A d \in Docs : FrameOf(curTid, d))
    /\ [][/\ (mainPc = "send_write" /\ mainPc' = "idle")
             => IF result' = "ok"
                THEN /\ written' = Append(written, <<_stream, curTid>>)
                     /\ _stream # None /\ streamState[_stream] # "closed"
                     /\ UNCHANGED <<threadVars, curTid>>
                ELSE written' = written
          /\ written' # written => (mainPc = "send_write" /\ result' = "ok")]_vars

\* The first send() has returned tid 1 with its frame written on stream 1,
\* while the receive thread still waits for a first header.
C25_Witness ==
    /\ lastOp = "send" /\ mainPc = "idle" /\ result = "ok"
    /\ written = << <<1, 1>> >>
    /\ curTid = 1
    /\ rpc[1] = "header"

\* Transaction ids that put a non-zero byte in each place of the header field,
\* up to the largest the model's integers hold.
RoundTripTids == {0, 255, 256, 65535, 65536, 16777216, 2147483647}

\* Decoding what _prep_message built from (tid, doc): the header of the first
\* eight bytes as _receive_header reads it, the document of the rest as
\* _receive_body reads it, and the size the header announced.
RoundTrip(tid, doc) ==
    LET f == prep_message(tid, doc)
        h == struct_unpack(SubSeq(f, 1, HeaderSize))
        b == SubSeq(f, HeaderSize + 1, Len(f))
    IN  /\ h[1] = "ok" /\ h[2] = tid
        /\ h[3] = Len(b)
        /\ decode_body(b) = <<"ok", doc>>

\* C26: decoding the header and the body of the frame encoded from (t, d)
\* gives back (t, d), and the size in the header is the number of bytes of the
\* body: for the sample transaction ids and documents, and for every frame the
\* receive loop has unpacked or delivered from the wire.
C26_FrameRoundTrip ==
    /\ \A t \in RoundTripTids \cup Tids : \A d \in Docs : RoundTrip(t, d)
    /\ \A i \in 1..Len(delivered) : i <= Len(frames) /\ delivered[i] = frames[i]
    /\ tcpPc \in {"body", "deliver"}
         => /\ Len(delivered) < Len(frames)
            /\ header = <<frames[Len(delivered) + 1][1],
                          Len(bson_encode(frames[Len(delivered) + 1][2]))>>
    /\ tcpPc = "deliver" => body = bson_encode(frames[Len(delivered) + 1][2])

C26_Witness ==
    /\ Len(delivered) = 2
    /\ delivered[1] = <<258, << <<97, 5>> >> >>
    /\ delivered[2] = <<0, <<>> >>

Interrupted == _socket # "open" \/ peer = "reset" \/ (peer = "gone" /\ avail = 0)

\* C28: a TCPStream.recv that the connection cannot satisfy does not block:
\* its next turn ends it. A recv returns only with no less than the size
\* asked for, and it ends with StreamError otherwise; the StreamError
\* carries socket.error as its original_error exactly when the socket's
\* recv raised (on a closed socket, after a reset), and None when the socket
\* returned no bytes.
C28_RecvRaisesStreamError ==
    /\ []((strPc = "recv" /\ Interrupted) => ENABLED StreamRecvChunk)
    /\ [][(strPc = "recv" /\ strPc' = "idle")
            => /\ outcome' \in {"returned", "StreamError"}
               /\ outcome' = "returned"
                    => gotBytes' >= asked /\ original_error' = "None" /\ ~Interrupted
               /\ Interrupted => outcome' = "StreamError"
               /\ outcome' = "StreamError"
                    => (original_error' = "socket.error"
                          <=> (_socket = "closed" \/ (_socket = "open" /\ peer = "reset")))]_vars

C28_Witness ==
    /\ impl = "tcp" /\ call = "recv" /\ strPc = "idle"
    /\ asked = 2 /\ gotBytes = 1 /\ peer = "gone" /\ _socket = "open"
    /\ outcome = "StreamError" /\ original_error = "None"

\* A step of the receive thread: it passes a document on or moves on in
\* ending its loop.
ReceiveThreadStep == inbound' # inbound \/ recvPc' # recvPc

\* C29: a step of the receive thread changes no dirty flag, no entry of the
\* grammar table, no other state of a grammar and not the language, sends
\* nothing and runs nothing of the pump: at most it puts one function, the
\* handling of a document or `finished`, at the end of the function loop.
C29_ReceiveThreadOnlyEnqueues ==
    [][ReceiveThreadStep
         => /\ UNCHANGED <<grammarVars, _language, sent, pumpVars, executed>>
            /\ \/ UNCHANGED <<_queue, queued>>
               \/ /\ queued' = queued + 1
                  /\ Len(_queue') = Len(_queue) + 1
                  /\ SubSeq(_queue', 1, Len(_queue)) = _queue
                  /\ _queue'[Len(_queue')].n = queued'
                  /\ _queue'[Len(_queue')].by = "recv"
                  /\ _queue'[Len(_queue')].fn \in {"handle", "finished"}]_vars

\* A failure notice for a loaded grammar is on the loop, not handled yet, and
\* the grammar is not dirty.
C29_Witness ==
    /\ "g1" \in Loaded /\ ~dirty["g1"]
    /\ \E i \in 1..Len(_queue) :
          /\ _queue[i].fn = "handle" /\ _queue[i].by = "recv"
          /\ _queue[i].msg = [topic |-> "g.set", name |-> "g1", success |-> "false"]

\* C30: a message reaches the backend only when the pump runs the oldest
\* function of the loop and that function is a queued send of this message;
\* the functions are numbered in the order the engine queued them and run in
\* that order, so the k-th frame written, which carries the k-th transaction
\* id of the client, is the k-th send the engine queued of those that ran.
\* The first frame of the connection is the authentication.
C30_SendsInQueueOrder ==
    /\ [](sent # <<>> => sent[1] = prep_auth)
    /\ [](\A i \in 1..Len(_queue) : \A j \in 1..Len(_queue) :
              i < j => (executed < _queue[i].n /\ _queue[i].n < _queue[j].n))
    /\ [][sent' # sent
            => /\ pumpPc = "get" /\ _queue # <<>>
               /\ Head(_queue).fn = "send"
               /\ Head(_queue).n = executed + 1
               /\ executed' = executed + 1
               /\ _queue' = Tail(_queue)
               /\ Len(sent') = Len(sent) + 1
               /\ SubSeq(sent', 1, Len(sent)) = sent
               /\ sent'[Len(sent')].cmd = Head(_queue).msg.cmd]_vars

\* The authentication, the status request, the state of a grammar and the
\* answer to a pause were written in the order they were queued.
C30_Witness ==
    /\ Len(sent) = 4
    /\ sent[1].cmd = "auth" /\ sent[2].cmd = "status"
    /\ sent[3].cmd = "g.set" /\ sent[4].cmd = "unpause"

\* The set messages for grammar g that are queued and not written yet.
PendingSets(g) ==
    {i \in 1..Len(_queue) : /\ _queue[i].fn = "send"
                            /\ _queue[i].msg.cmd = "g.set"
                            /\ _queue[i].msg.name = g}

\* C31: the set message written for a flush point carries the state computed
\* at that flush point: while a set message of a grammar is queued and not
\* written, a later flush does not change the state it will carry.
C31_SetCarriesFlushState ==
    [][\A g \in Grammars :
          (pumpPc = "flush" /\ state'[g] # state[g]) => PendingSets(g) = {}]_vars

\* Where the handler running now has called `what` on grammar g.
EventsOf(what, g) == {i \in 1..Len(events) : events[i] = <<what, g>>}

C33_FailureNotified ==
    (\E i \in 1..Len(events) : events[i] = <<"warning", "failed to decode">>)
       => \E j \in 1..Len(events) : events[j][1] = "notify_failure"

\* C34: when the handler comes to the language identifier of a document, the
\* loop goes on whatever the identifier is; the identifier 1 sets the language
\* to "en"; an identifier that is neither negative nor 1 leaves the language
\* as it was, logs an error and queues nothing; and the language changes in
\* no other step.
C34_UnknownLanguageKept ==
    [][/\ (pumpPc = "tail" /\ pumpPc' # pumpPc /\ Has(cur.msg, "language_id"))
          => /\ pumpPc' = "get"
             /\ cur.msg.language_id = "1" => _language' = "en"
             /\ cur.msg.language_id \notin {"1", "-1"}
                  => /\ _language' = _language
                     /\ events' = Append(events, <<"error", "unknown language">>)
                     /\ UNCHANGED loopVars
       /\ _language' # _language
          => (pumpPc = "tail" /\ Has(cur.msg, "language_id") /\ cur.msg.language_id = "1")]_vars

\* The status with the identifier 7 was handled and the error logged; the
\* pump waits to take the document that came after it.
C34_Witness ==
    /\ pumpPc = "get" /\ executed = 3
    /\ cur.fn = "handle" /\ cur.msg = [language_id |-> "7"]
    /\ events = << <<"error", "unknown language">> >>
    /\ _language = "en"
    /\ Len(_queue) = 1 /\ _queue[1].fn = "handle"

\* C35: whether the callback raises or not, the receive loop goes from a
\* delivered message to the next header, the handling of an error goes on to
\* the closing of the stream, and a receive thread ends only by making the
\* disconnect callback, which is the last entry of its log.
C35_CallbackFailureContained ==
    [][\A t \in StreamIds :
          /\ (rpc[t] = "deliver" /\ rpc'[t] # rpc[t])
                => rpc'[t] = "header" /\ cause'[t] = cause[t]
          /\ (rpc[t] = "except" /\ rpc'[t] # rpc[t]) => rpc'[t] = "close_stream"
          /\ (rpc[t] # "done" /\ rpc'[t] = "done")
                => /\ rpc[t] = "disconnect"
                   /\ cbLog'[t] = Append(cbLog[t], <<"disconnect", "">>)]_vars

\* The message callback of the one connection has raised and the exception
\* was printed; the loop has read the next frame and is about to deliver it.
C35_Witness ==
    /\ connCount = 1 /\ printed = "message"
    /\ rpc[1] = "deliver" /\ cause[1] = "none"

\* C36: on the pipe stream the send lock is held by exactly the thread that
\* is inside the write and the receive lock by exactly the thread that is
\* inside the read, so at most one thread is inside each, and a thread that
\* has left send or recv, by a return or by an exception, holds no lock.
C36_LocksSerialize ==
    /\ \A th \in PipeThreads :
          /\ _send_lock = th <=> pipePc[th] = "write"
          /\ _recv_lock = th <=> pipePc[th] = "read"
    /\ Cardinality({th \in PipeThreads : pipePc[th] = "write"}) <= 1
    /\ Cardinality({th \in PipeThreads : pipePc[th] = "read"}) <= 1
    /\ _send_lock \in PipeThreads \cup {"unlocked"}
    /\ _recv_lock \in PipeThreads \cup {"unlocked"}

\* A send has failed and a receive is still inside the read; a second thread
\* has taken the send lock after the failure and is inside the write.
C36_Witness ==
    /\ pipeOut["t1"][1] = "send" /\ pipeOut["t1"][2] \notin {"none", "returned"}
    /\ pipePc["t1"] = "read" /\ _recv_lock = "t1"
    /\ pipePc["t2"] = "write" /\ _send_lock = "t2"

\* C37: with send() called from two threads at once, the frames written to a
\* stream appear on it in increasing order of their transaction ids.
C37_ConcurrentSendsInTidOrder ==
    \A i \in 1..Len(written) : \A j \in 1..Len(written) :
        (i < j /\ written[i][1] = written[j][1]) => written[i][2] < written[j][2]

\* C38: at most one receive thread of the client is alive at any time, and
\* connect() installs a stream only when no receive thread is alive.
C38_OneReceiveLoop ==
    /\ [](Cardinality({t \in StreamIds : isAlive(t)}) <= 1)
    /\ [][connCount' # connCount => \A t \in StreamIds : ~isAlive(t)]_vars

\* C39: every call of send() takes one tid from the counter and a call that
\* fails leaves the frames written and the counter as they are, so its tid
\* is never written; a call that succeeds appends the frame with its tid. The
\* tids of the frames written are strictly increasing and below the counter.
C39_FailedSendKeepsTid ==
    /\ [](/\ _tid_counter = sendCalls + 1
          /\ \A i, j \in 1..Len(written) : i < j => written[i][2] < written[j][2]
          /\ \A i \in 1..Len(written) : written[i][2] < _tid_counter)
    /\ [][(mainPc \in {"send_write", "send_except"} /\ mainPc' = "idle")
            => /\ _tid_counter' = _tid_counter
               /\ IF result' = "ok"
                  THEN written' = Append(written, <<_stream, curTid>>)
                  ELSE /\ written' = written
                       /\ \A i \in 1..Len(written) : written[i][2] # curTid]_vars

\* The first send failed on the client not yet connected and used up tid 1;
\* the second, after connect(), wrote its frame with tid 2.
C39_Witness ==
    /\ mainPc = "idle" /\ lastOp = "send" /\ result = "ok"
    /\ sendCalls = 2 /\ _tid_counter = 3
    /\ written = << <<1, 2>> >>

\* C40: a grammar that is not in the table has no dirty flag set, and while
\* it stays out of the table no set message for it is queued. The table
\* changes only by a load or an unload. A failure notice that names a grammar
\* not in the table changes no dirty flag and no table entry, and the handler
\* goes on to the rest of the document and from there to the next function.
C40_UnloadedStaysOut ==
    /\ [](\A g \in Grammars \ Loaded : ~dirty[g])
    /\ [][/\ \A g \in Grammars : (g \notin Loaded /\ g \notin Loaded') => Queues("g.set", g) = 0
          /\ _grammar_wrappers' # _grammar_wrappers
                => (apiCalls' = apiCalls + 1 \/ pumpPc = "disconnect")
          /\ (/\ pumpPc = "get" /\ pumpPc' # pumpPc
              /\ cur'.fn = "handle" /\ FailureNotice(cur'.msg)
              /\ cur'.msg.name \notin Loaded)
                => /\ pumpPc' = "tail"
                   /\ dirty' = dirty
                   /\ _grammar_wrappers' = _grammar_wrappers
          /\ (pumpPc = "tail" /\ pumpPc' # pumpPc) => pumpPc' = "get"]_vars

\* g1 was loaded and unloaded; the failure notice of its g.set has been
\* handled since: it was logged, no flag is set and the pump is at the next
\* function.
C40_Witness ==
    /\ Loaded = {}
    /\ Count(Outbound, "g.unload", "g1") = 1
    /\ pumpPc = "get" /\ executed > 0
    /\ cur.fn = "handle" /\ FailureNotice(cur.msg) /\ cur.msg.name = "g1"
    /\ \E i \in 1..Len(events) : events[i] = <<"warning", "not loaded">>
    /\ \A g \in Grammars : ~dirty[g]

====
